---- MODULE Spec2Model ----
(***************************************************************************)
(* stat-log-db: the connection lifecycle of db.py (Database,               *)
(* BaseConnection over an SQLAlchemy engine on SQLite) and its identifier  *)
(* and column-type validators.                                             *)
(*                                                                         *)
(* Strings are sequences of one-character strings, so that the regular     *)
(* expressions, str.upper and str.strip are computed character by          *)
(* character as Python computes them.                                      *)
(***************************************************************************)
EXTENDS Integers, Sequences, FiniteSets, TLC

(***************************************************************************)
(* Bounds of the model.                                                    *)
(***************************************************************************)
\* BaseConnection objects that may be constructed in one behaviour.
MaxConns == 2
\* Longest string enumerated as an input of the identifier validator.
MaxIdentLen == 2
\* BaseConnection objects used by the callers that create and drop tables.
MaxDdlConns == 1
\* Longest text after the base type in the column types that are validated.
MaxSuffixLen == 3
\* Most entries of an options map.
MaxOptions == 2
\* Most rows a table is given.
MaxRows == 2

(***************************************************************************)
(* Characters.                                                             *)
(***************************************************************************)
NL == "\n"
TAB == "\t"

LowerLetters ==
    <<"a","b","c","d","e","f","g","h","i","j","k","l","m",
      "n","o","p","q","r","s","t","u","v","w","x","y","z">>

UpperLetters ==
    <<"A","B","C","D","E","F","G","H","I","J","K","L","M",
      "N","O","P","Q","R","S","T","U","V","W","X","Y","Z">>

Range(f) == { f[i] : i \in DOMAIN f }

AsciiLower == Range(LowerLetters)
AsciiUpper == Range(UpperLetters)
AsciiDigit == {"0","1","2","3","4","5","6","7","8","9"}

\* Python's str.isspace characters that occur in the inputs.
Whitespace == {" ", TAB, NL}

\* str.upper and str.lower on one (ASCII) character.
ToUpper == [c \in AsciiLower |-> UpperLetters[CHOOSE i \in 1..26 : LowerLetters[i] = c]]
ToLower == [c \in AsciiUpper |-> LowerLetters[CHOOSE i \in 1..26 : UpperLetters[i] = c]]

UpperChar(c) == IF c \in AsciiLower THEN ToUpper[c] ELSE c

LowerChar(c) == IF c \in AsciiUpper THEN ToLower[c] ELSE c

\* str.upper
Upper(s) == [i \in 1..Len(s) |-> UpperChar(s[i])]

\* str.lower
Lower(s) == [i \in 1..Len(s) |-> LowerChar(s[i])]

(***************************************************************************)
(* BaseConnection._validate_identifier                                     *)
(***************************************************************************)
\* The character class [a-zA-Z_]
IdentStartChar(c) == c \in AsciiLower \cup AsciiUpper \cup {"_"}

\* The character class [a-zA-Z0-9_]
IdentChar(c) == c \in AsciiLower \cup AsciiUpper \cup AsciiDigit \cup {"_"}

\* The grammar ^[A-Za-z_][A-Za-z0-9_]*$ read as a whole-string match.
WholeStringIdent(s) ==
    /\ Len(s) >= 1
    /\ IdentStartChar(s[1])
    /\ \A i \in 2..Len(s) : IdentChar(s[i])

\* re.match(r'^[a-zA-Z_][a-zA-Z0-9_]*$', s) of Python's re module: the
\* pattern is anchored at the start, and without re.MULTILINE "$" matches
\* at the end of the string and also just before a newline that is the
\* last character of the string.
ReMatchIdentifier(s) ==
    /\ Len(s) >= 1
    /\ IdentStartChar(s[1])
    /\ \E k \in 1..Len(s) :
         /\ \A i \in 2..k : IdentChar(s[i])
         /\ \/ k = Len(s)
            \/ k = Len(s) - 1 /\ s[Len(s)] = NL

sql_reserved_words ==
    {
      <<"A","B","O","R","T">>, <<"A","C","T","I","O","N">>, <<"A","D","D">>,
      <<"A","F","T","E","R">>, <<"A","L","L">>, <<"A","L","T","E","R">>,
      <<"A","N","A","L","Y","Z","E">>, <<"A","N","D">>, <<"A","S">>, <<"A","S","C">>,
      <<"A","T","T","A","C","H">>, <<"A","U","T","O","I","N","C","R","E","M","E","N","T">>,
      <<"B","E","F","O","R","E">>, <<"B","E","G","I","N">>, <<"B","E","T","W","E","E","N">>,
      <<"B","Y">>, <<"C","A","S","C","A","D","E">>, <<"C","A","S","E">>, <<"C","A","S","T">>,
      <<"C","H","E","C","K">>, <<"C","O","L","L","A","T","E">>, <<"C","O","L","U","M","N">>,
      <<"C","O","M","M","I","T">>, <<"C","O","N","F","L","I","C","T">>,
      <<"C","O","N","S","T","R","A","I","N","T">>, <<"C","R","E","A","T","E">>,
      <<"C","R","O","S","S">>, <<"C","U","R","R","E","N","T","_","D","A","T","E">>,
      <<"C","U","R","R","E","N","T","_","T","I","M","E">>,
      <<"C","U","R","R","E","N","T","_","T","I","M","E","S","T","A","M","P">>,
      <<"D","A","T","A","B","A","S","E">>, <<"D","E","F","A","U","L","T">>,
      <<"D","E","F","E","R","R","A","B","L","E">>, <<"D","E","F","E","R","R","E","D">>,
      <<"D","E","L","E","T","E">>, <<"D","E","S","C">>, <<"D","E","T","A","C","H">>,
      <<"D","I","S","T","I","N","C","T">>, <<"D","R","O","P">>, <<"E","A","C","H">>,
      <<"E","L","S","E">>, <<"E","N","D">>, <<"E","S","C","A","P","E">>,
      <<"E","X","C","E","P","T">>, <<"E","X","C","L","U","S","I","V","E">>,
      <<"E","X","I","S","T","S">>, <<"E","X","P","L","A","I","N">>, <<"F","A","I","L">>,
      <<"F","O","R">>, <<"F","O","R","E","I","G","N">>, <<"F","R","O","M">>, <<"F","U","L","L">>,
      <<"G","L","O","B">>, <<"G","R","O","U","P">>, <<"H","A","V","I","N","G">>, <<"I","F">>,
      <<"I","G","N","O","R","E">>, <<"I","M","M","E","D","I","A","T","E">>, <<"I","N">>,
      <<"I","N","D","E","X">>, <<"I","N","D","E","X","E","D">>,
      <<"I","N","I","T","I","A","L","L","Y">>, <<"I","N","N","E","R">>,
      <<"I","N","S","E","R","T">>, <<"I","N","S","T","E","A","D">>,
      <<"I","N","T","E","R","S","E","C","T">>, <<"I","N","T","O">>, <<"I","S">>,
      <<"I","S","N","U","L","L">>, <<"J","O","I","N">>, <<"K","E","Y">>, <<"L","E","F","T">>,
      <<"L","I","K","E">>, <<"L","I","M","I","T">>, <<"M","A","T","C","H">>,
      <<"N","A","T","U","R","A","L">>, <<"N","O">>, <<"N","O","T">>,
      <<"N","O","T","N","U","L","L">>, <<"N","U","L","L">>, <<"O","F">>,
      <<"O","F","F","S","E","T">>, <<"O","N">>, <<"O","R">>, <<"O","R","D","E","R">>,
      <<"O","U","T","E","R">>, <<"P","L","A","N">>, <<"P","R","A","G","M","A">>,
      <<"P","R","I","M","A","R","Y">>, <<"Q","U","E","R","Y">>, <<"R","A","I","S","E">>,
      <<"R","E","C","U","R","S","I","V","E">>, <<"R","E","F","E","R","E","N","C","E","S">>,
      <<"R","E","G","E","X","P">>, <<"R","E","I","N","D","E","X">>,
      <<"R","E","L","E","A","S","E">>, <<"R","E","N","A","M","E">>,
      <<"R","E","P","L","A","C","E">>, <<"R","E","S","T","R","I","C","T">>,
      <<"R","I","G","H","T">>, <<"R","O","L","L","B","A","C","K">>, <<"R","O","W">>,
      <<"S","A","V","E","P","O","I","N","T">>, <<"S","E","L","E","C","T">>, <<"S","E","T">>,
      <<"T","A","B","L","E">>, <<"T","E","M","P">>, <<"T","E","M","P","O","R","A","R","Y">>,
      <<"T","H","E","N">>, <<"T","O">>, <<"T","R","A","N","S","A","C","T","I","O","N">>,
      <<"T","R","I","G","G","E","R">>, <<"U","N","I","O","N">>, <<"U","N","I","Q","U","E">>,
      <<"U","P","D","A","T","E">>, <<"U","S","I","N","G">>, <<"V","A","C","U","U","M">>,
      <<"V","A","L","U","E","S">>, <<"V","I","E","W">>, <<"V","I","R","T","U","A","L">>,
      <<"W","H","E","N">>, <<"W","H","E","R","E">>, <<"W","I","T","H">>,
      <<"W","I","T","H","O","U","T">>
    }

Ok(v) == [ok |-> TRUE, err |-> "none", val |-> v]
Raise(e) == [ok |-> FALSE, err |-> e, val |-> <<>>]

\* Mutant: the reserved words are compared without identifier.upper().
validate_identifier_case_sensitive(identifier) ==
    IF Len(identifier) = 0 THEN Raise("EmptyIdentifier")
    ELSE IF ~ReMatchIdentifier(identifier) THEN Raise("MalformedIdentifier")
    ELSE IF identifier \in sql_reserved_words THEN Raise("ReservedWord")
    ELSE Ok(identifier)

\* Mutant: the identifier is returned in upper case.
validate_identifier_normalizing(identifier) ==
    IF Len(identifier) = 0 THEN Raise("EmptyIdentifier")
    ELSE IF ~ReMatchIdentifier(identifier) THEN Raise("MalformedIdentifier")
    ELSE IF Upper(identifier) \in sql_reserved_words THEN Raise("ReservedWord")
    ELSE Ok(Upper(identifier))

\* _validate_identifier(identifier, identifier_type) for a str argument:
\* the value returned, or the error raised.  The three ValueErrors of the
\* code are told apart by the names the error taxonomy gives them.
validate_identifier(identifier) ==
    IF Len(identifier) = 0 THEN Raise("EmptyIdentifier")
    ELSE IF ~ReMatchIdentifier(identifier) THEN Raise("MalformedIdentifier")
    ELSE IF Upper(identifier) \in sql_reserved_words THEN Raise("ReservedWord")
    ELSE Ok(identifier)

(***************************************************************************)
(* BaseConnection._validate_column_type                                    *)
(***************************************************************************)
\* Number of leading characters of s that satisfy P.
RECURSIVE LeadingRun(_, _)
LeadingRun(s, set) ==
    IF Len(s) = 0 \/ s[1] \notin set THEN 0
    ELSE 1 + LeadingRun(Tail(s), set)

Reverse(s) == [i \in 1..Len(s) |-> s[Len(s) + 1 - i]]

\* str.strip(): leading and trailing whitespace removed.
Strip(s) ==
    LET lead == LeadingRun(s, Whitespace)
        trail == LeadingRun(Reverse(s), Whitespace)
    IN  IF lead = Len(s) THEN <<>>
        ELSE SubSeq(s, lead + 1, Len(s) - trail)

allowed_types ==
    { <<"T","E","X","T">>, <<"I","N","T","E","G","E","R">>, <<"R","E","A","L">>,
      <<"B","L","O","B">>, <<"N","U","M","E","R","I","C">>,
      <<"V","A","R","C","H","A","R">>, <<"C","H","A","R">>,
      <<"N","V","A","R","C","H","A","R">>, <<"N","C","H","A","R">>,
      <<"C","L","O","B">>, <<"D","A","T","E">>, <<"D","A","T","E","T","I","M","E">>,
      <<"T","I","M","E","S","T","A","M","P">>,
      <<"B","O","O","L","E","A","N">>, <<"D","E","C","I","M","A","L">>,
      <<"D","O","U","B","L","E">>, <<"F","L","O","A","T">>,
      <<"I","N","T">>, <<"B","I","G","I","N","T">>,
      <<"S","M","A","L","L","I","N","T">>, <<"T","I","N","Y","I","N","T">> }

\* The character class [0-9,\s]
SpecifierChar(c) == c \in AsciiDigit \cup {","} \cup Whitespace

\* re.match(r'^[A-Z]+(\([0-9,\s]+\))?$', s): a run of capitals, then
\* optionally one parenthesized group, then the end of the string (or the
\* newline that ends it).
ReMatchColumnType(s) ==
    LET k == LeadingRun(s, AsciiUpper)
        n == IF Len(s) > 0 /\ s[Len(s)] = NL THEN {Len(s), Len(s) - 1} ELSE {Len(s)}
    IN  /\ k >= 1
        /\ \E e \in n :
             \/ e = k
             \/ /\ e >= k + 3
                /\ s[k + 1] = "("
                /\ s[e] = ")"
                /\ \A i \in (k + 2)..(e - 1) : SpecifierChar(s[i])

\* Mutant: the full type specification is not matched against the format.
validate_column_type_base_only(col_type) ==
    LET normalized_type == Strip(Upper(col_type))
        base_len == LeadingRun(normalized_type, AsciiUpper)
        base_type == SubSeq(normalized_type, 1, base_len)
    IN  IF base_len = 0 THEN Raise("MalformedType")
        ELSE IF base_type \notin allowed_types THEN Raise("UnsupportedType")
        ELSE Ok(normalized_type)

\* _validate_column_type(col_type) for a str argument.
validate_column_type(col_type) ==
    LET normalized_type == Strip(Upper(col_type))
        base_len == LeadingRun(normalized_type, AsciiUpper)
        base_type == SubSeq(normalized_type, 1, base_len)
    IN  IF base_len = 0 THEN Raise("MalformedType")
        ELSE IF base_type \notin allowed_types THEN Raise("UnsupportedType")
        ELSE IF ~ReMatchColumnType(normalized_type) THEN Raise("MalformedType")
        ELSE Ok(normalized_type)

\* _build_column_definition(col_name, col_type): the column name is
\* validated first, then the type; the definition is the validated pair.
build_column_definition(col) ==
    LET n == validate_identifier(col[1])
        t == validate_column_type(col[2])
    IN  IF ~n.ok THEN n
        ELSE IF ~t.ok THEN t
        ELSE Ok(<<n.val, t.val>>)

\* The loop of create_table over the columns: the first error raised, or
\* the list of column definitions.
RECURSIVE column_definitions(_)
column_definitions(columns) ==
    IF Len(columns) = 0 THEN Ok(<<>>)
    ELSE LET d == build_column_definition(Head(columns))
             rest == column_definitions(Tail(columns))
         IN  IF ~d.ok THEN d
             ELSE IF ~rest.ok THEN rest
             ELSE Ok(<<d.val>> \o rest.val)

(***************************************************************************)
(* The engine's tables: columns, rows and stored values (SQLite)           *)
(***************************************************************************)
\* Values bound to parameters and held in rows.
NullValue == [class |-> "null", text |-> "", num |-> 0]
IntegerValue(k) == [class |-> "integer", text |-> "", num |-> k]
RealValue(k) == [class |-> "real", text |-> "", num |-> k]
TextValue(s) == [class |-> "text", text |-> s, num |-> 0]

DecimalDigits == <<"0", "1", "2", "3", "4", "5", "6", "7", "8", "9">>

\* The decimal digits of a natural number.
RECURSIVE DecimalChars(_)
DecimalChars(k) ==
    IF k < Len(DecimalDigits) THEN <<DecimalDigits[k + 1]>>
    ELSE Append(DecimalChars(k \div Len(DecimalDigits)),
                DecimalDigits[(k % Len(DecimalDigits)) + 1])

\* The characters of s as one text.
RECURSIVE Join(_)
Join(s) == IF Len(s) = 0 THEN "" ELSE Head(s) \o Join(Tail(s))

\* The decimal text of a natural number.
DecimalText(k) == Join(DecimalChars(k))

\* int(s) for a string of decimal digits.
RECURSIVE DigitsValue(_)
DigitsValue(s) ==
    IF Len(s) = 0 THEN 0
    ELSE DigitsValue(SubSeq(s, 1, Len(s) - 1)) * Len(DecimalDigits)
           + (CHOOSE d \in 0..(Len(DecimalDigits) - 1) :
                DecimalDigits[d + 1] = s[Len(s)])

\* Numbers whose decimal text the model's values use.
SmallNumbers == 0..(Len(DecimalDigits) - 1)

\* The text s is an integer literal.
IsIntegerText(s) == \E k \in SmallNumbers : DecimalText(k) = s

IntegerOfText(s) == CHOOSE k \in SmallNumbers : DecimalText(k) = s

\* The word w occurs in the string s.
Contains(s, w) ==
    \E i \in 1..(Len(s) - Len(w) + 1) : SubSeq(s, i, i + Len(w) - 1) = w

\* The affinity SQLite gives a column from its declared type.
Affinity(type) ==
    IF Contains(type, <<"I","N","T">>) THEN "INTEGER"
    ELSE IF \/ Contains(type, <<"C","H","A","R">>)
            \/ Contains(type, <<"C","L","O","B">>)
            \/ Contains(type, <<"T","E","X","T">>) THEN "TEXT"
    ELSE IF Contains(type, <<"B","L","O","B">>) THEN "BLOB"
    ELSE IF \/ Contains(type, <<"R","E","A","L">>)
            \/ Contains(type, <<"F","L","O","A">>)
            \/ Contains(type, <<"D","O","U","B">>) THEN "REAL"
    ELSE "NUMERIC"

\* The value a column of the given affinity stores for the value v: a
\* TEXT column stores a number as its text, a numeric column stores a text
\* that is a number as that number.
StoredValue(affinity, v) ==
    IF affinity = "TEXT"
      THEN IF v.class \in {"integer", "real"} THEN TextValue(DecimalText(v.num)) ELSE v
    ELSE IF affinity \in {"INTEGER", "NUMERIC"}
      THEN IF v.class = "text" /\ IsIntegerText(v.text)
             THEN IntegerValue(IntegerOfText(v.text))
           ELSE IF v.class = "real" THEN IntegerValue(v.num)
           ELSE v
    ELSE IF affinity = "REAL"
      THEN IF v.class = "text" /\ IsIntegerText(v.text)
             THEN RealValue(IntegerOfText(v.text))
           ELSE IF v.class = "integer" THEN RealValue(v.num)
           ELSE v
    ELSE v

\* The column every table is given: id INTEGER PRIMARY KEY AUTOINCREMENT.
IdColumn == << <<"i","d">>, <<"I","N","T","E","G","E","R">> >>

\* Mutant: the id column is put after the columns given.
NewTableIdLast(definitions) ==
    [columns |-> definitions \o <<IdColumn>>, rows |-> <<>>, seq |-> 0]

\* A table just created from the column definitions: no rows, and no id
\* handed out yet.
NewTable(definitions) ==
    [columns |-> <<IdColumn>> \o definitions, rows |-> <<>>, seq |-> 0]

\* Position of the column called name in a table (names fold ASCII case),
\* 0 if there is none.
ColumnIndex(table, name) ==
    IF \E i \in 1..Len(table.columns) : Upper(table.columns[i][1]) = Upper(name)
      THEN CHOOSE i \in 1..Len(table.columns) :
             Upper(table.columns[i][1]) = Upper(name)
      ELSE 0

\* Position of name in the list names, 0 if it is not in it.
NameIndex(names, name) ==
    IF \E j \in 1..Len(names) : Upper(names[j]) = Upper(name)
      THEN CHOOSE j \in 1..Len(names) : Upper(names[j]) = Upper(name)
      ELSE 0

\* INSERT INTO <table> (<names>) VALUES (<values>): the new row takes the
\* id after the largest ever handed out, every named column the value
\* bound to it as the column stores it, and any other column NULL.
InsertRow(table, names, values) ==
    LET id == table.seq + 1
        row == [i \in 1..Len(table.columns) |->
                  IF i = 1 THEN IntegerValue(id)
                  ELSE IF NameIndex(names, table.columns[i][1]) = 0 THEN NullValue
                  ELSE StoredValue(Affinity(table.columns[i][2]),
                                   values[NameIndex(names, table.columns[i][1])])]
    IN  [table EXCEPT !.rows = Append(@, row), !.seq = id]

(***************************************************************************)
(* Database.__init__                                                       *)
(***************************************************************************)
\* Values of an options map, by their Python type.
StrOption(s) == [type |-> "str", str |-> s, bool |-> FALSE]
BoolOption(b) == [type |-> "bool", str |-> <<>>, bool |-> b]
IntOption == [type |-> "int", str |-> <<>>, bool |-> FALSE]
NoneOption == [type |-> "NoneType", str |-> <<>>, bool |-> FALSE]

\* valid_options: the recognized keys and the type each expects.  An
\* options map is the sequence of its <<key, value>> items, keys distinct.
valid_options ==
    [db_name |-> "str", is_mem |-> "bool", fkey_constraint |-> "bool"]

\* The error of the first item of the map that is not accepted, "ok" if
\* every item is.
RECURSIVE OptionsError(_)
OptionsError(opts) ==
    IF Len(opts) = 0 THEN "ok"
    ELSE IF Head(opts)[1] \notin DOMAIN valid_options THEN "InvalidOption"
    ELSE IF Head(opts)[2].type # valid_options[Head(opts)[1]]
      THEN "OptionTypeMismatch"
    ELSE OptionsError(Tail(opts))

\* options.get(key, default)
OptionsGet(opts, key, default) ==
    IF \E i \in 1..Len(opts) : opts[i][1] = key
      THEN opts[CHOOSE i \in 1..Len(opts) : opts[i][1] = key][2]
      ELSE default

\* str.replace(" ", "_")
ReplaceSpaces(s) == [i \in 1..Len(s) |-> IF s[i] = " " THEN "_" ELSE s[i]]

\* The resolved location of an in-memory Database.
MemoryFileName == <<":","m","e","m","o","r","y",":">>

\* A text standing for str(uuid.uuid4()): it has no space.
Uuid4Text == <<"u","u","i","d","4">>

\* Mutant: the values of the options are not checked against their types.
DatabaseInitUntyped(opts, uuid) ==
    LET unknown == \E i \in 1..Len(opts) : opts[i][1] \notin DOMAIN valid_options
        mem == OptionsGet(opts, "is_mem", BoolOption(FALSE)).bool
        name == OptionsGet(opts, "db_name", StrOption(uuid)).str
    IN  [err |-> IF unknown THEN "InvalidOption" ELSE "ok",
         engine |-> IF unknown THEN "none"
                    ELSE IF mem THEN "StaticPool" ELSE "QueuePool",
         in_memory |-> mem,
         is_file |-> ~mem,
         db_name |-> name,
         db_file_name |-> IF mem THEN MemoryFileName ELSE ReplaceSpaces(name),
         fkey_constraint |-> OptionsGet(opts, "fkey_constraint", BoolOption(TRUE)).bool]

\* Mutant: the name is taken for the file name as it is.
DatabaseInitKeepingSpaces(opts, uuid) ==
    LET err == OptionsError(opts)
        mem == OptionsGet(opts, "is_mem", BoolOption(FALSE)).bool
        name == OptionsGet(opts, "db_name", StrOption(uuid)).str
    IN  [err |-> err,
         engine |-> IF err # "ok" THEN "none"
                    ELSE IF mem THEN "StaticPool" ELSE "QueuePool",
         in_memory |-> mem,
         is_file |-> ~mem,
         db_name |-> name,
         db_file_name |-> IF mem THEN MemoryFileName ELSE name,
         fkey_constraint |-> OptionsGet(opts, "fkey_constraint", BoolOption(TRUE)).bool]

\* Database.__init__(options): the error raised, or the attributes of the
\* Database and the pool class of the engine made for it.
DatabaseInit(opts, uuid) ==
    LET err == OptionsError(opts)
        mem == OptionsGet(opts, "is_mem", BoolOption(FALSE)).bool
        name == OptionsGet(opts, "db_name", StrOption(uuid)).str
    IN  [err |-> err,
         engine |-> IF err # "ok" THEN "none"
                    ELSE IF mem THEN "StaticPool" ELSE "QueuePool",
         in_memory |-> mem,
         is_file |-> ~mem,
         db_name |-> name,
         db_file_name |-> IF mem THEN MemoryFileName ELSE ReplaceSpaces(name),
         fkey_constraint |-> OptionsGet(opts, "fkey_constraint", BoolOption(TRUE)).bool]

(***************************************************************************)
(* State: one Database, its SQLAlchemy engine on SQLite, and the           *)
(* BaseConnection objects made for it.                                     *)
(***************************************************************************)
\* QueuePool(pool_size=5, max_overflow=10) of a file-backed Database.
pool_size == 5
max_overflow == 10

ConnIds == 1..MaxConns
\* DBAPI (sqlite3) connections of the engine: every BaseConnection may hold
\* one, and MetaData.create_all may check out one more.
DbapiIds == 1..(MaxConns + 1)
\* BaseConnection._connection is None.
None == 0
\* BaseConnection._connection is an SQLAlchemy Connection whose sqlite3
\* connection was closed under it by StaticPool.dispose().
Dead == 0 - 1
\* The one sqlite3 connection a StaticPool hands to every checkout.
StaticId == 1

VARIABLES
    options,          \* the options the Database is constructed from
    engine,           \* Database._engine: its pool class, "none" before it is made
    in_memory,        \* Database._in_memory
    is_file,          \* Database._is_file
    db_name,          \* Database._db_name
    db_file_name,     \* Database._db_file_name
    fkey_constraint,  \* Database._fkey_constraint
    scope,            \* per FileConnectionCtx: where its with statement is
    created,          \* created[c]: BaseConnection c has been constructed
    connection,       \* BaseConnection._connection: None, Dead or a DBAPI id
    in_transaction,   \* the SQLAlchemy Connection of c has autobegun
    last_result,      \* BaseConnection._last_result
    dbapi,            \* the engine's sqlite3 connections
    pool_queue,       \* QueuePool: the checked-in connections, oldest first
    main_tables,      \* tables of the main schema (sqlite_master)
    table_data,       \* columns and rows of every table of the engine
    ret,              \* the last call: operation, connection, outcome
    was_closed,       \* was_closed[c]: close() returned on c, not reopened
    executed,         \* executed[c]: execute succeeded since the last open()
    identifier,       \* input string of the validator and statement-text specifications
    col_type,         \* input string of the column-type specification
    validated         \* results of validating the input, then its result

vars == <<options, engine, in_memory, is_file, db_name, db_file_name,
          fkey_constraint, scope, created, connection, in_transaction,
          last_result, dbapi, pool_queue, main_tables, table_data, ret,
          was_closed, executed, identifier, col_type, validated>>

dbVars == <<options, engine, in_memory, is_file, db_name, db_file_name,
           fkey_constraint>>
identVars == <<identifier, col_type, validated>>

\* hasattr(self, '_last_result') is false.
NoResult ==
    [set |-> FALSE, returns_rows |-> FALSE, rows |-> <<>>, left |-> 0, live |-> FALSE]

\* No sqlite3 connection.
NoDbapi ==
    [state |-> "closed", temp |-> {}, foreign_keys |-> FALSE, txn |-> FALSE,
     pending |-> <<>>]

\* The last call: its operation, the BaseConnection it was made on (0 for a
\* call on the Database), how it ended, whether the BaseConnection had a
\* handle when it was made, whether a statement of the call was run by the
\* engine, and the rows a fetch returned.
Return(op, c, outcome) ==
    [op |-> op, conn |-> c, outcome |-> outcome, was_open |-> connection[c] # None,
     sent |-> FALSE, rows |-> <<>>]

DbReturn(op, outcome) ==
    [op |-> op, conn |-> 0, outcome |-> outcome, was_open |-> FALSE,
     sent |-> FALSE, rows |-> <<>>]

\* A call during which the engine ran at least one statement.
Sent(op, c, outcome) == [Return(op, c, outcome) EXCEPT !.sent = TRUE]

\* Number of connections checked out of the current QueuePool.
CheckedOut == Cardinality({d \in DbapiIds : dbapi[d].state = "out"})

\* Engine.connect(): the pool's checkout.  StaticPool creates its single
\* connection on first use and returns it to every caller; QueuePool hands
\* out the oldest checked-in connection, else creates one while fewer than
\* pool_size + max_overflow are checked out, else times out.
EngineConnect ==
    IF in_memory
      THEN [ok |-> TRUE, h |-> StaticId, queue |-> pool_queue,
            db |-> IF dbapi[StaticId].state = "closed"
                     THEN [dbapi EXCEPT ![StaticId].state = "static"]
                     ELSE dbapi]
    ELSE IF Len(pool_queue) > 0
      THEN [ok |-> TRUE, h |-> Head(pool_queue), queue |-> Tail(pool_queue),
            db |-> [dbapi EXCEPT ![Head(pool_queue)].state = "out"]]
    ELSE IF CheckedOut < pool_size + max_overflow
            /\ \E d \in DbapiIds : dbapi[d].state = "closed"
      THEN LET d == CHOOSE x \in DbapiIds :
                      /\ dbapi[x].state = "closed"
                      /\ \A y \in DbapiIds : dbapi[y].state = "closed" => x <= y
           IN  [ok |-> TRUE, h |-> d, queue |-> pool_queue,
                db |-> [dbapi EXCEPT ![d].state = "out"]]
    ELSE [ok |-> FALSE, h |-> None, queue |-> pool_queue, db |-> dbapi]

\* sqlalchemy Connection.close(): the checkout h goes back to its pool.
\* QueuePool keeps up to pool_size connections and closes the rest; a
\* connection of a disposed pool is dropped; StaticPool keeps its connection.
\* A connection that is kept is reset: a transaction left open on it is
\* rolled back.
PoolReturn(db, queue, h) ==
    IF h \notin DbapiIds THEN [db |-> db, queue |-> queue]
    ELSE IF db[h].state = "out" /\ Len(queue) < pool_size
      THEN [db |-> [db EXCEPT ![h].state = "idle", ![h].txn = FALSE,
                              ![h].pending = <<>>],
            queue |-> Append(queue, h)]
    ELSE IF db[h].state \in {"out", "detached"}
      THEN [db |-> [db EXCEPT ![h] = NoDbapi], queue |-> queue]
    ELSE [db |-> [db EXCEPT ![h].txn = FALSE, ![h].pending = <<>>],
          queue |-> queue]

\* The engine's name lookup (CREATE/DROP TABLE, PRAGMA table_info) folds
\* ASCII case.
HasTable(tables, n) == \E x \in tables : Upper(x) = Upper(n)

\* SELECT name FROM sqlite_master WHERE type='table' AND name=:table_name
\* compares exactly, and sqlite_master lists the main schema only.
CatalogHas(n) == n \in main_tables

connVars == <<created, connection, in_transaction, last_result, was_closed, executed>>
engineVars == <<dbapi, pool_queue, main_tables, table_data>>

\* The main schema, among the schemas that hold tables: every sqlite3
\* connection d has the temp schema d of its own.
MainSchema == 0

\* The tables of the engine: <<schema, name>>.
TableKeys(db, main) ==
    {<<MainSchema, n>> : n \in main}
      \cup UNION {{<<d, n>> : n \in db[d].temp} : d \in DbapiIds}

\* The contents of the tables when the engine's tables have become those of
\* db and main: a table that was there keeps its contents, a new one has
\* the contents fresh, and the contents of a table that is gone are gone.
DataFor(db, main, data, fresh) ==
    [k \in TableKeys(db, main) |-> IF k \in DOMAIN data THEN data[k] ELSE fresh]

\* The table an unqualified name refers to in a statement on connection h:
\* the temp schema of h is searched first, then the main schema.
VisibleKeys(db, h, main, name) ==
    IF HasTable(db[h].temp, name)
      THEN {<<h, x>> : x \in {y \in db[h].temp : Upper(y) = Upper(name)}}
      ELSE {<<MainSchema, x>> : x \in {y \in main : Upper(y) = Upper(name)}}

\* A table of the file with a deferred foreign key: its column parent
\* references its own column id, DEFERRABLE INITIALLY DEFERRED.
NameChild == <<"c","h","i","l","d">>
NameParent == <<"p","a","r","e","n","t">>
ChildColumns == << <<NameParent, <<"I","N","T","E","G","E","R">>>> >>
ChildKey == <<MainSchema, NameChild>>

\* The tables as a handle sees them inside its transaction: the committed
\* contents with the inserts of the transaction, in their order.
RECURSIVE ApplyPending(_, _)
ApplyPending(data, pending) ==
    IF Len(pending) = 0 THEN data
    ELSE LET w == Head(pending)
         IN  ApplyPending(
               IF w.key \in DOMAIN data
                 THEN [data EXCEPT ![w.key] = InsertRow(@, w.columns, w.values)]
                 ELSE data,
               Tail(pending))

\* The rows of the table with the deferred foreign key whose parent is the
\* id of no row.
Orphans(data) ==
    IF ChildKey \notin DOMAIN data THEN {}
    ELSE LET rows == data[ChildKey].rows
             pc == ColumnIndex(data[ChildKey], NameParent)
         IN  IF pc = 0 THEN {}
             ELSE {i \in 1..Len(rows) :
                     /\ rows[i][pc] # NullValue
                     /\ ~\E j \in 1..Len(rows) : rows[j][1] = rows[i][pc]}

\* The engine refuses to end a statement or a transaction that has made a
\* row violate the foreign key, when the handle enforces foreign keys.
Violates(db, h, before, after) ==
    db[h].foreign_keys /\ ~(Orphans(after) \subseteq Orphans(before))

\* Another handle holds the write lock of the file: it has written in a
\* transaction it has not ended.
Locked(db, h) == \E d \in DbapiIds \ {h} : Len(db[d].pending) > 0

\* PRAGMA foreign_keys = ON on handle h: without effect inside a
\* transaction.
ForeignKeysOn(db, h) ==
    IF db[h].txn THEN db ELSE [db EXCEPT ![h].foreign_keys = TRUE]

\* The driver's commit() on handle h: nothing outside a transaction;
\* inside one, COMMIT, which the engine refuses while a deferred foreign
\* key is violated, leaving the transaction open.
DbapiCommit(db, data, h) ==
    IF ~db[h].txn THEN [ok |-> TRUE, db |-> db, data |-> data]
    ELSE LET new == ApplyPending(data, db[h].pending)
         IN  IF Violates(db, h, data, new)
               THEN [ok |-> FALSE, db |-> db, data |-> data]
               ELSE [ok |-> TRUE,
                     db |-> [db EXCEPT ![h].txn = FALSE, ![h].pending = <<>>],
                     data |-> new]

\* enforce_foreign_key_constraints(commit) on handle h.
EnforceResult(db, data, h, commit) ==
    IF ~fkey_constraint THEN [ok |-> TRUE, db |-> db, data |-> data]
    ELSE IF commit THEN DbapiCommit(ForeignKeysOn(db, h), data, h)
    ELSE [ok |-> TRUE, db |-> ForeignKeysOn(db, h), data |-> data]

\* A call that returns or raises without changing anything.
Unchanged(op, c, outcome) ==
    /\ ret' = Return(op, c, outcome)
    /\ UNCHANGED <<dbVars, connVars, engineVars, identVars, scope>>

\* The property BaseConnection.connection followed by a statement on it:
\* RuntimeError("Connection is not open.") without a handle; on a handle
\* whose sqlite3 connection was closed the driver raises, and SQLAlchemy,
\* having invalidated the connection, may instead check out again when no
\* transaction is pending; otherwise the statement runs on the handle.
StmtViews(c) ==
    IF connection[c] = None
      THEN {[res |-> "NotOpen", h |-> None, db |-> dbapi]}
    ELSE IF connection[c] = Dead
      THEN {[res |-> "EngineError", h |-> Dead, db |-> dbapi]}
           \cup IF in_transaction[c] THEN {}
                ELSE {[res |-> "run", h |-> StaticId, db |-> EngineConnect.db]}
    ELSE {[res |-> "run", h |-> connection[c], db |-> dbapi]}

\* A call that ran at least one statement on its handle and then returned
\* or raised: the handle has autobegun; the engine is left as given.
TouchedData(op, c, view, newdbapi, newmain, fresh, outcome) ==
    /\ ret' = Sent(op, c, outcome)
    /\ connection' = [connection EXCEPT ![c] = view.h]
    /\ in_transaction' = [in_transaction EXCEPT ![c] = TRUE]
    /\ dbapi' = newdbapi
    /\ main_tables' = newmain
    /\ table_data' = DataFor(newdbapi, newmain, table_data, fresh)
    /\ UNCHANGED <<dbVars, created, last_result, pool_queue, was_closed,
                   executed, identVars, scope>>

\* The same for a call that creates no table.
Touched(op, c, view, newdbapi, newmain, outcome) ==
    TouchedData(op, c, view, newdbapi, newmain, NewTable(<<>>), outcome)

(***************************************************************************)
(* Database                                                                *)
(***************************************************************************)
\* The next BaseConnection object to be constructed.
NewConn == CHOOSE c \in ConnIds : ~created[c] /\ \A x \in ConnIds : ~created[x] => c <= x

\* Database.create_connection(): BaseConnection(self), not opened.
CreateConnection ==
    /\ \E c \in ConnIds : ~created[c]
    /\ created' = [created EXCEPT ![NewConn] = TRUE]
    /\ ret' = Return("create_connection", NewConn, "ok")
    /\ UNCHANGED <<dbVars, connection, in_transaction, last_result, was_closed,
                   executed, engineVars, identVars, scope>>

\* open() then enforce_foreign_key_constraints(commit) on a connection just
\* constructed: Database.init_db(commit_fkey) and Connection.__init__.
OpenAndEnforce(op, commit) ==
    LET c == NewConn
        e == EngineConnect
        k == EnforceResult(e.db, table_data, e.h, commit)
    IN  /\ \E x \in ConnIds : ~created[x]
        /\ created' = [created EXCEPT ![c] = TRUE]
        /\ IF ~e.ok
             THEN /\ ret' = Return(op, c, "PoolTimeout")
                  /\ UNCHANGED <<connection, in_transaction, dbapi, pool_queue,
                                 table_data>>
             ELSE /\ ret' = [Return(op, c, IF k.ok THEN "ok" ELSE "EngineError")
                               EXCEPT !.sent = fkey_constraint]
                  /\ connection' = [connection EXCEPT ![c] = e.h]
                  /\ in_transaction' =
                       [in_transaction EXCEPT
                          ![c] = fkey_constraint /\ (~commit \/ ~k.ok)]
                  /\ dbapi' = k.db
                  /\ pool_queue' = e.queue
                  /\ table_data' = k.data
        /\ UNCHANGED <<dbVars, last_result, was_closed, executed, main_tables,
                       identVars, scope>>

\* Database.init_db(commit_fkey)
InitDb(commit_fkey) == OpenAndEnforce("init_db", commit_fkey)

\* Connection(db): BaseConnection.__init__, open(), enforce(True)
NewConnection == OpenAndEnforce("Connection", TRUE)

\* Mutant: init_db_auto_close returns without closing the connection.
InitDbAutoCloseKeepsOpen ==
    IF in_memory
      THEN /\ ret' = DbReturn("init_db_auto_close", "InMemoryCannotAutoClose")
           /\ UNCHANGED <<dbVars, connVars, engineVars, identVars, scope>>
      ELSE LET c == NewConn
               e == EngineConnect
               k == EnforceResult(e.db, table_data, e.h, FALSE)
           IN  /\ \E x \in ConnIds : ~created[x]
               /\ created' = [created EXCEPT ![c] = TRUE]
               /\ IF ~e.ok
                    THEN /\ ret' = Return("init_db_auto_close", c, "PoolTimeout")
                         /\ UNCHANGED <<connection, in_transaction, dbapi, pool_queue>>
                    ELSE /\ ret' = [Return("init_db_auto_close", c, "ok")
                                      EXCEPT !.sent = fkey_constraint]
                         /\ connection' = [connection EXCEPT ![c] = e.h]
                         /\ in_transaction' =
                              [in_transaction EXCEPT ![c] = fkey_constraint]
                         /\ dbapi' = k.db
                         /\ pool_queue' = e.queue
               /\ UNCHANGED <<dbVars, last_result, was_closed, executed,
                              main_tables, table_data, identVars, scope>>

\* Database.init_db_auto_close(): refused for an in-memory Database;
\* otherwise init_db(False) and close() of the connection it returned.
InitDbAutoClose ==
    IF in_memory
      THEN /\ ret' = DbReturn("init_db_auto_close", "InMemoryCannotAutoClose")
           /\ UNCHANGED <<dbVars, connVars, engineVars, identVars, scope>>
      ELSE LET c == NewConn
               e == EngineConnect
               p == EnforceResult(e.db, table_data, e.h, FALSE)
               k == IF fkey_constraint THEN DbapiCommit(p.db, table_data, e.h)
                    ELSE [ok |-> TRUE, db |-> p.db, data |-> table_data]
               r == PoolReturn(k.db, e.queue, e.h)
           IN  /\ \E x \in ConnIds : ~created[x]
               /\ created' = [created EXCEPT ![c] = TRUE]
               /\ IF ~e.ok
                    THEN /\ ret' = Return("init_db_auto_close", c, "PoolTimeout")
                         /\ UNCHANGED <<connection, in_transaction, dbapi,
                                        pool_queue, was_closed, table_data>>
                  ELSE IF ~k.ok
                    THEN /\ ret' = Sent("init_db_auto_close", c, "EngineError")
                         /\ connection' = [connection EXCEPT ![c] = e.h]
                         /\ in_transaction' = [in_transaction EXCEPT ![c] = TRUE]
                         /\ dbapi' = k.db
                         /\ pool_queue' = e.queue
                         /\ UNCHANGED <<was_closed, table_data>>
                    ELSE /\ ret' = [Return("init_db_auto_close", c, "ok")
                                      EXCEPT !.sent = fkey_constraint]
                         /\ dbapi' = r.db
                         /\ pool_queue' = r.queue
                         /\ was_closed' = [was_closed EXCEPT ![c] = TRUE]
                         /\ table_data' = DataFor(r.db, main_tables, k.data,
                                                  NewTable(<<>>))
                         /\ UNCHANGED <<connection, in_transaction>>
               /\ UNCHANGED <<dbVars, last_result, executed, main_tables,
                              identVars, scope>>

\* Database.close_db(): Engine.dispose().  The pool closes the connections
\* checked in to it and is replaced by a new pool; a QueuePool leaves the
\* checked-out connections working.  StaticPool closes its one connection
\* although BaseConnections still hold it, and the in-memory store with it.
CloseDb ==
    /\ ret' = DbReturn("close_db", "ok")
    /\ IF in_memory
         THEN /\ dbapi' = [dbapi EXCEPT ![StaticId] = NoDbapi]
              /\ main_tables' = {}
              /\ connection' = [c \in ConnIds |->
                    IF connection[c] = StaticId THEN Dead ELSE connection[c]]
              /\ last_result' = [c \in ConnIds |->
                    IF connection[c] = StaticId
                      THEN [last_result[c] EXCEPT !.live = FALSE]
                      ELSE last_result[c]]
              /\ UNCHANGED pool_queue
         ELSE /\ dbapi' = [d \in DbapiIds |->
                    IF dbapi[d].state = "idle" THEN NoDbapi
                    ELSE IF dbapi[d].state = "out"
                      THEN [dbapi[d] EXCEPT !.state = "detached"]
                    ELSE dbapi[d]]
              /\ pool_queue' = <<>>
              /\ UNCHANGED <<main_tables, connection, last_result>>
    /\ table_data' = DataFor(dbapi', main_tables', table_data, NewTable(<<>>))
    /\ UNCHANGED <<dbVars, created, in_transaction, was_closed, executed, identVars, scope>>

(***************************************************************************)
(* BaseConnection: open, close, execute, commit, fetch                     *)
(***************************************************************************)
\* Mutant: open() without the test for an existing handle.
OpenWithoutCheck(c) ==
    /\ created[c]
    /\ LET e == EngineConnect
       IN  /\ e.ok
           /\ ret' = Return("open", c, "ok")
           /\ connection' = [connection EXCEPT ![c] = e.h]
           /\ in_transaction' = [in_transaction EXCEPT ![c] = FALSE]
           /\ dbapi' = e.db
           /\ pool_queue' = e.queue
           /\ was_closed' = [was_closed EXCEPT ![c] = FALSE]
           /\ executed' = [executed EXCEPT ![c] = FALSE]
           /\ UNCHANGED <<dbVars, created, last_result, main_tables, table_data,
                          identVars, scope>>

\* BaseConnection.open()
Open(c) ==
    /\ created[c]
    /\ IF connection[c] # None
         THEN Unchanged("open", c, "AlreadyOpen")
         ELSE LET e == EngineConnect
              IN  IF ~e.ok
                    THEN Unchanged("open", c, "PoolTimeout")
                    ELSE /\ ret' = Return("open", c, "ok")
                         /\ connection' = [connection EXCEPT ![c] = e.h]
                         /\ in_transaction' = [in_transaction EXCEPT ![c] = FALSE]
                         /\ dbapi' = e.db
                         /\ pool_queue' = e.queue
                         /\ was_closed' = [was_closed EXCEPT ![c] = FALSE]
                         /\ executed' = [executed EXCEPT ![c] = FALSE]
                         /\ UNCHANGED <<dbVars, created, last_result, main_tables,
                                        table_data, identVars, scope>>

\* Mutant: close() reads the connection property first, as commit() does,
\* and so raises without a handle.
CloseStrict(c) ==
    /\ created[c]
    /\ \/ /\ connection[c] = None
          /\ Unchanged("close", c, "NotOpen")
       \/ /\ connection[c] # None
          /\ LET r == PoolReturn(dbapi, pool_queue, connection[c])
             IN  /\ ret' = Return("close", c, "ok")
                 /\ connection' = [connection EXCEPT ![c] = None]
                 /\ in_transaction' = [in_transaction EXCEPT ![c] = FALSE]
                 /\ last_result' = [last_result EXCEPT ![c].live = FALSE]
                 /\ dbapi' = r.db
                 /\ pool_queue' = r.queue
                 /\ was_closed' = [was_closed EXCEPT ![c] = TRUE]
                 /\ table_data' = DataFor(r.db, main_tables, table_data,
                                          NewTable(<<>>))
                 /\ UNCHANGED <<dbVars, created, executed, main_tables, identVars, scope>>

\* Mutant: the pool does not keep the connection that close() gives back,
\* as a pool other than StaticPool would not, and the in-memory store goes
\* with it.
CloseAsDiscarding(op, c) ==
    /\ created[c]
    /\ \/ /\ connection[c] = None
          /\ ret' = Return(op, c, "ok")
          /\ was_closed' = [was_closed EXCEPT ![c] = TRUE]
          /\ UNCHANGED <<dbVars, created, connection, in_transaction, last_result,
                         executed, engineVars, identVars>>
       \/ /\ connection[c] # None
          /\ ret' = Return(op, c, "ok")
          /\ connection' = [connection EXCEPT ![c] = None]
          /\ in_transaction' = [in_transaction EXCEPT ![c] = FALSE]
          /\ last_result' = [last_result EXCEPT ![c].live = FALSE]
          /\ dbapi' = IF connection[c] \in DbapiIds
                        THEN [dbapi EXCEPT ![connection[c]] = NoDbapi]
                        ELSE dbapi
          /\ pool_queue' = pool_queue
          /\ main_tables' = IF in_memory THEN {} ELSE main_tables
          /\ was_closed' = [was_closed EXCEPT ![c] = TRUE]
          /\ table_data' = DataFor(dbapi', main_tables', table_data, NewTable(<<>>))
          /\ UNCHANGED <<dbVars, created, executed, identVars>>

\* BaseConnection.close(): commit and release the handle if there is one,
\* and return silently if there is none.  _last_result is left as it is;
\* its cursor no longer belongs to a checked-out connection.
CloseAs(op, c) ==
    /\ created[c]
    /\ \/ /\ connection[c] = None
          /\ ret' = Return(op, c, "ok")
          /\ was_closed' = [was_closed EXCEPT ![c] = TRUE]
          /\ UNCHANGED <<dbVars, created, connection, in_transaction, last_result,
                         executed, engineVars, identVars>>
       \/ /\ connection[c] = Dead
          /\ in_transaction[c]
          /\ ret' = Return(op, c, "EngineError")
          /\ UNCHANGED <<dbVars, connVars, engineVars, identVars>>
       \/ /\ connection[c] # None
          /\ LET k == IF in_transaction[c] /\ connection[c] \in DbapiIds
                        THEN DbapiCommit(dbapi, table_data, connection[c])
                        ELSE [ok |-> TRUE, db |-> dbapi, data |-> table_data]
                 r == PoolReturn(k.db, pool_queue, connection[c])
             IN  IF ~k.ok
                   THEN /\ ret' = Return(op, c, "EngineError")
                        /\ UNCHANGED <<dbVars, connVars, engineVars, identVars>>
                   ELSE /\ ret' = Return(op, c, "ok")
                        /\ connection' = [connection EXCEPT ![c] = None]
                        /\ in_transaction' = [in_transaction EXCEPT ![c] = FALSE]
                        /\ last_result' = [last_result EXCEPT ![c].live = FALSE]
                        /\ dbapi' = r.db
                        /\ pool_queue' = r.queue
                        /\ was_closed' = [was_closed EXCEPT ![c] = TRUE]
                        /\ table_data' = DataFor(r.db, main_tables, k.data,
                                                 NewTable(<<>>))
                        /\ UNCHANGED <<dbVars, created, executed, main_tables,
                                       identVars>>

\* BaseConnection.close() called by its name.
Close(c) == CloseAs("close", c) /\ UNCHANGED scope

\* The statements execute() is given by the callers that use a
\* connection for statements and results only.
Queries == {"", "SELECT 1", "PRAGMA foreign_keys = ON;"}

\* The parameters argument: absent, a tuple of values, or not a tuple.
NoParameters == [kind |-> "None", values |-> <<>>]
TupleParameters(values) == [kind |-> "tuple", values |-> values]
ListParameters == [kind |-> "list", values |-> <<>>]

Parameters == {NoParameters, TupleParameters(<<>>), ListParameters}

\* Statements on the table t with the columns n and m.
InsertN == "INSERT INTO t (n) VALUES (?)"
InsertNM == "INSERT INTO t (n, m) VALUES (?, ?)"
SelectAll == "SELECT * FROM t"

\* The start of a transaction, and an INSERT into the table with the
\* deferred foreign key.
Begin == "BEGIN"
InsertChild == "INSERT INTO child (parent) VALUES (?)"

\* What a statement text asks of the engine.
Statement(query) ==
    CASE query = "SELECT 1" ->
           [kind |-> "select_value", table |-> <<>>, columns |-> <<>>]
      [] query = "PRAGMA foreign_keys = ON;" ->
           [kind |-> "pragma_foreign_keys", table |-> <<>>, columns |-> <<>>]
      [] query = Begin ->
           [kind |-> "begin", table |-> <<>>, columns |-> <<>>]
      [] query = InsertN ->
           [kind |-> "insert", table |-> <<"t">>, columns |-> <<<<"n">>>>]
      [] query = InsertNM ->
           [kind |-> "insert", table |-> <<"t">>, columns |-> <<<<"n">>, <<"m">>>>]
      [] query = InsertChild ->
           [kind |-> "insert", table |-> NameChild, columns |-> <<NameParent>>]
      [] query = SelectAll ->
           [kind |-> "select_all", table |-> <<"t">>, columns |-> <<>>]

\* The CursorResult of a statement that returns the given rows, and of one
\* that returns none.
RowsResult(rows) ==
    [set |-> TRUE, returns_rows |-> TRUE, rows |-> rows, left |-> Len(rows),
     live |-> TRUE]

NoRowsResult ==
    [set |-> TRUE, returns_rows |-> FALSE, rows |-> <<>>, left |-> 0, live |-> TRUE]

\* _execute(query, params) on a handle, for a statement the engine runs to
\* its end: every "?" of the text is bound, in order, to the parameter of
\* its position.  The engine refuses a statement on a table or a column it
\* does not find, and one whose placeholders are not all bound.
RunStatement(view, query, values) ==
    LET stmt == Statement(query)
        h == view.h
        seen == ApplyPending(table_data, view.db[h].pending)
        keys == VisibleKeys(view.db, h, main_tables, stmt.table)
        key == CHOOSE k \in keys : TRUE
        written == [table_data EXCEPT ![key] = InsertRow(@, stmt.columns, values)]
        refused == [err |-> "EngineError", result |-> NoResult, db |-> view.db,
                    data |-> table_data]
    IN  IF stmt.kind = "select_value"
          THEN [err |-> "ok", result |-> RowsResult(<<<<IntegerValue(1)>>>>),
                db |-> view.db, data |-> table_data]
        ELSE IF stmt.kind = "pragma_foreign_keys"
          THEN [err |-> "ok", result |-> NoRowsResult,
                db |-> ForeignKeysOn(view.db, h), data |-> table_data]
        ELSE IF stmt.kind = "begin"
          THEN IF view.db[h].txn THEN refused
               ELSE [err |-> "ok", result |-> NoRowsResult,
                     db |-> [view.db EXCEPT ![h].txn = TRUE], data |-> table_data]
        ELSE IF keys = {} THEN refused
        ELSE IF stmt.kind = "select_all"
          THEN [err |-> "ok", result |-> RowsResult(seen[key].rows),
                db |-> view.db, data |-> table_data]
        ELSE IF \/ Len(values) # Len(stmt.columns)
                \/ \E i \in 1..Len(stmt.columns) :
                      ColumnIndex(table_data[key], stmt.columns[i]) = 0
          THEN refused
        ELSE IF key[1] = MainSchema /\ Locked(view.db, h) THEN refused
        ELSE IF view.db[h].txn
          THEN [err |-> "ok", result |-> NoRowsResult,
                db |-> [view.db EXCEPT ![h].pending =
                          Append(@, [key |-> key, columns |-> stmt.columns,
                                     values |-> values])],
                data |-> table_data]
        ELSE IF Violates(view.db, h, table_data, written) THEN refused
        ELSE [err |-> "ok", result |-> NoRowsResult, db |-> view.db,
              data |-> written]

\* The table an INSERT adds a row to has fewer than MaxRows rows.
RoomFor(view, query) ==
    LET stmt == Statement(query)
        keys == VisibleKeys(view.db, view.h, main_tables, stmt.table)
    IN  (stmt.kind = "insert" /\ keys # {}) =>
          \A k \in keys :
            Len(ApplyPending(table_data, view.db[view.h].pending)[k].rows) < MaxRows

\* Mutant: an execute that is given an empty query forgets the stored
\* result.
ExecuteForgetting(c, query, parameters) ==
    /\ created[c]
    /\ IF query = ""
         THEN /\ ret' = Return("execute", c, "EmptyQuery")
              /\ last_result' = [last_result EXCEPT ![c] = NoResult]
              /\ UNCHANGED <<dbVars, created, connection, in_transaction,
                             was_closed, executed, engineVars, identVars, scope>>
       ELSE IF parameters.kind = "list" THEN Unchanged("execute", c, "ArgTypeError")
       ELSE \E view \in StmtViews(c) :
              IF view.res # "run" THEN Unchanged("execute", c, view.res)
              ELSE LET r == RunStatement(view, query, parameters.values)
                   IN  /\ RoomFor(view, query)
                       /\ ret' = Sent("execute", c, r.err)
                       /\ connection' = [connection EXCEPT ![c] = view.h]
                       /\ in_transaction' = [in_transaction EXCEPT ![c] = TRUE]
                       /\ last_result' = IF r.err = "ok"
                                           THEN [last_result EXCEPT ![c] = r.result]
                                           ELSE last_result
                       /\ dbapi' = r.db
                       /\ table_data' = r.data
                       /\ executed' = [executed EXCEPT ![c] = @ \/ r.err = "ok"]
                       /\ UNCHANGED <<dbVars, created, was_closed, pool_queue,
                                      main_tables, identVars, scope>>

\* BaseConnection.execute(query, parameters): the result is stored in
\* _last_result only when _execute returns.
Execute(c, query, parameters) ==
    /\ created[c]
    /\ IF query = "" THEN Unchanged("execute", c, "EmptyQuery")
       ELSE IF parameters.kind = "list" THEN Unchanged("execute", c, "ArgTypeError")
       ELSE \E view \in StmtViews(c) :
              IF view.res # "run" THEN Unchanged("execute", c, view.res)
              ELSE LET r == RunStatement(view, query, parameters.values)
                   IN  /\ RoomFor(view, query)
                       /\ ret' = Sent("execute", c, r.err)
                       /\ connection' = [connection EXCEPT ![c] = view.h]
                       /\ in_transaction' = [in_transaction EXCEPT ![c] = TRUE]
                       /\ last_result' = IF r.err = "ok"
                                           THEN [last_result EXCEPT ![c] = r.result]
                                           ELSE last_result
                       /\ dbapi' = r.db
                       /\ table_data' = r.data
                       /\ executed' = [executed EXCEPT ![c] = @ \/ r.err = "ok"]
                       /\ UNCHANGED <<dbVars, created, was_closed, pool_queue,
                                      main_tables, identVars, scope>>

\* BaseConnection.commit()
Commit(c) ==
    /\ created[c]
    /\ \/ /\ connection[c] = None
          /\ Unchanged("commit", c, "NotOpen")
       \/ /\ connection[c] = Dead
          /\ in_transaction[c]
          /\ Unchanged("commit", c, "EngineError")
       \/ /\ connection[c] # None
          /\ LET k == IF in_transaction[c] /\ connection[c] \in DbapiIds
                        THEN DbapiCommit(dbapi, table_data, connection[c])
                        ELSE [ok |-> TRUE, db |-> dbapi, data |-> table_data]
             IN  IF ~k.ok THEN Unchanged("commit", c, "EngineError")
                 ELSE /\ ret' = Return("commit", c, "ok")
                      /\ in_transaction' = [in_transaction EXCEPT ![c] = FALSE]
                      /\ dbapi' = k.db
                      /\ table_data' = k.data
                      /\ UNCHANGED <<dbVars, created, connection, last_result,
                                     was_closed, executed, pool_queue,
                                     main_tables, identVars, scope>>

\* BaseConnection.fetchone() (all = FALSE) and fetchall() (all = TRUE): only
\* _last_result is consulted.  A result that returns no rows was closed
\* when it was made and raises; an exhausted result yields None / []; rows
\* left on a cursor whose connection was released or closed are returned
\* or raise, as the driver has it.
Fetch(c, all) ==
    LET op == IF all THEN "fetchall" ELSE "fetchone"
        r == last_result[c]
    IN  /\ created[c]
        /\ IF ~r.set THEN Unchanged(op, c, "NoResult")
           ELSE IF ~r.returns_rows THEN Unchanged(op, c, "EngineError")
           ELSE \/ /\ r.left > 0
                   /\ ~r.live
                   /\ Unchanged(op, c, "EngineError")
                \/ /\ ret' = [Return(op, c, "ok") EXCEPT !.rows =
                        IF r.left = 0 THEN <<>>
                        ELSE SubSeq(r.rows, Len(r.rows) - r.left + 1,
                                    IF all THEN Len(r.rows)
                                    ELSE Len(r.rows) - r.left + 1)]
                   /\ last_result' = [last_result EXCEPT ![c].left =
                        IF all \/ r.left = 0 THEN 0 ELSE r.left - 1]
                   /\ UNCHANGED <<dbVars, created, connection, in_transaction,
                                  was_closed, executed, engineVars, identVars, scope>>

\* Mutant: the directive is sent whatever the policy of the Database.
EnforceRegardless(c, commit) ==
    /\ created[c]
    /\ \E view \in StmtViews(c) :
         IF view.res # "run"
           THEN Unchanged("enforce_foreign_key_constraints", c, view.res)
           ELSE LET on == ForeignKeysOn(view.db, view.h)
                    k == IF commit THEN DbapiCommit(on, table_data, view.h)
                         ELSE [ok |-> TRUE, db |-> on, data |-> table_data]
                IN  /\ ret' = Sent("enforce_foreign_key_constraints", c,
                                   IF k.ok THEN "ok" ELSE "EngineError")
                    /\ connection' = [connection EXCEPT ![c] = view.h]
                    /\ in_transaction' =
                         [in_transaction EXCEPT ![c] = ~commit \/ ~k.ok]
                    /\ dbapi' = k.db
                    /\ table_data' = k.data
                    /\ UNCHANGED <<dbVars, created, last_result, was_closed,
                                   executed, pool_queue, main_tables,
                                   identVars, scope>>

\* BaseConnection.enforce_foreign_key_constraints(commit)
EnforceForeignKeyConstraints(c, commit) ==
    /\ created[c]
    /\ IF ~fkey_constraint
         THEN Unchanged("enforce_foreign_key_constraints", c, "ok")
         ELSE \E view \in StmtViews(c) :
                IF view.res # "run"
                  THEN Unchanged("enforce_foreign_key_constraints", c, view.res)
                  ELSE LET k == EnforceResult(view.db, table_data, view.h, commit)
                       IN  /\ ret' = Sent("enforce_foreign_key_constraints", c,
                                          IF k.ok THEN "ok" ELSE "EngineError")
                           /\ connection' = [connection EXCEPT ![c] = view.h]
                           /\ in_transaction' =
                                [in_transaction EXCEPT ![c] = ~commit \/ ~k.ok]
                           /\ dbapi' = k.db
                           /\ table_data' = k.data
                           /\ UNCHANGED <<dbVars, created, last_result, was_closed,
                                          executed, pool_queue, main_tables,
                                          identVars, scope>>

(***************************************************************************)
(* BaseConnection: create_table, create_table_with_sqlalchemy_ddl,         *)
(* drop_table                                                              *)
(***************************************************************************)
\* Column names of a column list, as the engine compares them.
ColumnNames(columns) == [i \in 1..Len(columns) |-> Upper(columns[i][1])]

\* The engine refuses a table with two columns of one name; "id" is the
\* column every table is given.
DuplicateColumn(columns) ==
    LET names == <<Upper(<<"i","d">>)>> \o ColumnNames(columns)
    IN  \E i, j \in 1..Len(names) : i < j /\ names[i] = names[j]

\* Two columns given the very same name: Table(...) of SQLAlchemy refuses
\* them before anything is sent to the engine.
DuplicateKey(columns) ==
    LET names == <<<<"i","d">>>> \o [i \in 1..Len(columns) |-> columns[i][1]]
    IN  \E i, j \in 1..Len(names) : i < j /\ names[i] = names[j]

\* CREATE [TEMPORARY] TABLE IF NOT EXISTS "<name>" (...) run on connection
\* h: a temporary table goes to the temp schema of h, any other to the
\* main schema; with a table of that name in the schema the statement does
\* nothing; a new table with a duplicate column is refused.
RawCreate(db, h, name, temp_table, duplicate) ==
    IF temp_table
      THEN IF HasTable(db[h].temp, name)
             THEN [err |-> "ok", db |-> db, main |-> main_tables]
           ELSE IF duplicate
             THEN [err |-> "EngineError", db |-> db, main |-> main_tables]
           ELSE [err |-> "ok", db |-> [db EXCEPT ![h].temp = @ \cup {name}],
                 main |-> main_tables]
      ELSE IF HasTable(main_tables, name)
             THEN [err |-> "ok", db |-> db, main |-> main_tables]
           ELSE IF duplicate
             THEN [err |-> "EngineError", db |-> db, main |-> main_tables]
           ELSE [err |-> "ok", db |-> db, main |-> main_tables \cup {name}]

\* BaseConnection.create_table(table_name, columns, temp_table, raise_if_exists)
\* for arguments of the declared types.  With no column the statement
\* built ends in ", )" and the engine rejects it.
CreateTable(c, table_name, columns, temp_table, raise_if_exists) ==
    LET v == validate_identifier(table_name)
        cols == column_definitions(columns)
    IN  /\ created[c]
        /\ IF Len(table_name) = 0 THEN Unchanged("create_table", c, "EmptyTableName")
           ELSE IF ~v.ok THEN Unchanged("create_table", c, v.err)
           ELSE \E view \in StmtViews(c) :
                  IF raise_if_exists /\ view.res # "run"
                    THEN Unchanged("create_table", c, view.res)
                  ELSE IF raise_if_exists /\ CatalogHas(v.val)
                    THEN Touched("create_table", c, view, view.db, main_tables,
                                 "TableAlreadyExists")
                  ELSE IF ~cols.ok
                    THEN IF raise_if_exists
                           THEN Touched("create_table", c, view, view.db,
                                        main_tables, cols.err)
                           ELSE Unchanged("create_table", c, cols.err)
                  ELSE IF view.res # "run"
                    THEN Unchanged("create_table", c, view.res)
                  ELSE IF Len(columns) = 0
                    THEN Touched("create_table", c, view, view.db, main_tables,
                                 "EngineError")
                  ELSE LET r == RawCreate(view.db, view.h, v.val, temp_table,
                                          DuplicateColumn(columns))
                       IN  TouchedData("create_table", c, view, r.db, r.main,
                                       NewTable(cols.val), r.err)

\* _map_sqlite_type_to_sqlalchemy(sqlite_type) for a validated type, as
\* the SQLAlchemy type it returns is written in a CREATE TABLE statement:
\* the base type picks the type, and a string type keeps a length that is
\* the only thing between the parentheses.
map_sqlite_type_to_sqlalchemy(sqlite_type) ==
    LET normalized_type == Strip(Upper(sqlite_type))
        base_len == LeadingRun(normalized_type, AsciiUpper)
        base_type == SubSeq(normalized_type, 1, base_len)
        group == SubSeq(normalized_type, base_len + 2, Len(normalized_type) - 1)
        varchar == <<"V","A","R","C","H","A","R">>
    IN  IF base_type \in {<<"T","E","X","T">>, <<"C","L","O","B">>}
          THEN <<"T","E","X","T">>
        ELSE IF base_type \in {varchar, <<"C","H","A","R">>,
                               <<"N","V","A","R","C","H","A","R">>,
                               <<"N","C","H","A","R">>}
          THEN IF /\ Len(group) > 0
                  /\ \A i \in 1..Len(group) : group[i] \in AsciiDigit
                 THEN varchar \o <<"(">> \o DecimalChars(DigitsValue(group))
                        \o <<")">>
                 ELSE varchar
        ELSE IF base_type \in {<<"I","N","T","E","G","E","R">>, <<"I","N","T">>,
                               <<"B","I","G","I","N","T">>,
                               <<"S","M","A","L","L","I","N","T">>,
                               <<"T","I","N","Y","I","N","T">>}
          THEN <<"I","N","T","E","G","E","R">>
        ELSE IF base_type \in {<<"R","E","A","L">>, <<"D","O","U","B","L","E">>,
                               <<"F","L","O","A","T">>,
                               <<"N","U","M","E","R","I","C">>,
                               <<"D","E","C","I","M","A","L">>}
          THEN <<"F","L","O","A","T">>
        ELSE IF base_type = <<"B","O","O","L","E","A","N">>
          THEN <<"B","O","O","L","E","A","N">>
        ELSE IF base_type \in {<<"D","A","T","E">>,
                               <<"D","A","T","E","T","I","M","E">>,
                               <<"T","I","M","E","S","T","A","M","P">>}
          THEN <<"D","A","T","E","T","I","M","E">>
        ELSE <<"B","L","O","B">>

\* The columns of create_table_with_sqlalchemy_ddl after the id column.
sqlalchemy_columns(definitions) ==
    [i \in 1..Len(definitions) |->
       <<definitions[i][1], map_sqlite_type_to_sqlalchemy(definitions[i][2])>>]

\* MetaData.create_all(engine, tables=[table], checkfirst=...): the engine
\* checks out a connection of its own, looks the table up on it when
\* checkfirst is set, issues CREATE TABLE (without IF NOT EXISTS) if the
\* lookup found nothing, and returns the connection to the pool.  The
\* BaseConnection's own handle is not used.
CreateAll(name, checkfirst, duplicate) ==
    LET e == EngineConnect
        r == PoolReturn(e.db, e.queue, e.h)
    IN  IF ~e.ok
          THEN [err |-> "PoolTimeout", db |-> dbapi, queue |-> pool_queue,
                main |-> main_tables]
        ELSE IF checkfirst /\ HasTable(e.db[e.h].temp \cup main_tables, name)
          THEN [err |-> "ok", db |-> r.db, queue |-> r.queue, main |-> main_tables]
        ELSE IF duplicate \/ HasTable(main_tables, name)
          THEN [err |-> "EngineError", db |-> r.db, queue |-> r.queue,
                main |-> main_tables]
        ELSE [err |-> "ok", db |-> r.db, queue |-> r.queue,
              main |-> main_tables \cup {name}]

\* BaseConnection.create_table_with_sqlalchemy_ddl(table_name, columns,
\* temp_table, raise_if_exists) for arguments of the declared types.
CreateTableDDL(c, table_name, columns, temp_table, raise_if_exists) ==
    LET op == "create_table_with_sqlalchemy_ddl"
        v == validate_identifier(table_name)
        cols == column_definitions(columns)
    IN  /\ created[c]
        /\ IF Len(table_name) = 0 THEN Unchanged(op, c, "EmptyTableName")
           ELSE IF ~v.ok THEN Unchanged(op, c, v.err)
           ELSE \E view \in StmtViews(c) :
                  IF raise_if_exists /\ view.res # "run"
                    THEN Unchanged(op, c, view.res)
                  ELSE IF raise_if_exists /\ CatalogHas(v.val)
                    THEN Touched(op, c, view, view.db, main_tables,
                                 "TableAlreadyExists")
                  ELSE IF ~cols.ok
                    THEN IF raise_if_exists
                           THEN Touched(op, c, view, view.db, main_tables, cols.err)
                           ELSE Unchanged(op, c, cols.err)
                  ELSE IF temp_table
                    THEN IF view.res # "run" THEN Unchanged(op, c, view.res)
                         ELSE LET r == RawCreate(view.db, view.h, v.val, TRUE,
                                                 DuplicateColumn(columns))
                              IN  TouchedData(op, c, view, r.db, r.main,
                                              NewTable(sqlalchemy_columns(cols.val)),
                                              r.err)
                  ELSE IF DuplicateKey(columns)
                    THEN IF raise_if_exists
                           THEN Touched(op, c, view, view.db, main_tables,
                                        "EngineError")
                           ELSE Unchanged(op, c, "EngineError")
                  ELSE LET a == CreateAll(v.val, ~raise_if_exists,
                                          DuplicateColumn(columns))
                       IN  /\ ret' = IF a.err = "PoolTimeout" /\ ~raise_if_exists
                                        THEN Return(op, c, a.err)
                                        ELSE Sent(op, c, a.err)
                           /\ dbapi' = a.db
                           /\ pool_queue' = a.queue
                           /\ main_tables' = a.main
                           /\ table_data' =
                                DataFor(a.db, a.main, table_data,
                                        NewTable(sqlalchemy_columns(cols.val)))
                           /\ connection' = [connection EXCEPT ![c] =
                                IF raise_if_exists THEN view.h ELSE @]
                           /\ in_transaction' = [in_transaction EXCEPT ![c] =
                                IF raise_if_exists THEN TRUE ELSE @]
                           /\ UNCHANGED <<dbVars, created, last_result, was_closed,
                                          executed, identVars, scope>>

\* DROP TABLE IF EXISTS "<name>": an unqualified name is looked up in the
\* temp schema of the connection first, then in the main schema.
TempAfterDrop(db, h, name) ==
    [db EXCEPT ![h].temp = {x \in @ : Upper(x) # Upper(name)}]

MainAfterDrop(db, h, name) ==
    IF HasTable(db[h].temp, name) THEN main_tables
    ELSE {x \in main_tables : Upper(x) # Upper(name)}

\* Mutant: the table is dropped before it is looked up.
DropTableThenCheck(c, table_name, raise_if_not_exists) ==
    LET v == validate_identifier(table_name)
    IN  /\ created[c]
        /\ IF Len(table_name) = 0 THEN Unchanged("drop_table", c, "EmptyTableName")
           ELSE IF ~v.ok THEN Unchanged("drop_table", c, v.err)
           ELSE \E view \in StmtViews(c) :
                  IF view.res # "run" THEN Unchanged("drop_table", c, view.res)
                  ELSE Touched("drop_table", c, view,
                               TempAfterDrop(view.db, view.h, v.val),
                               MainAfterDrop(view.db, view.h, v.val),
                               IF raise_if_not_exists /\ ~CatalogHas(v.val)
                                 THEN "TableNotFound" ELSE "ok")

\* BaseConnection.drop_table(table_name, raise_if_not_exists) for arguments
\* of the declared types.
DropTable(c, table_name, raise_if_not_exists) ==
    LET v == validate_identifier(table_name)
    IN  /\ created[c]
        /\ IF Len(table_name) = 0 THEN Unchanged("drop_table", c, "EmptyTableName")
           ELSE IF ~v.ok THEN Unchanged("drop_table", c, v.err)
           ELSE \E view \in StmtViews(c) :
                  IF view.res # "run" THEN Unchanged("drop_table", c, view.res)
                  ELSE IF raise_if_not_exists /\ ~CatalogHas(v.val)
                    THEN Touched("drop_table", c, view, view.db, main_tables,
                                 "TableNotFound")
                  ELSE Touched("drop_table", c, view,
                               TempAfterDrop(view.db, view.h, v.val),
                               MainAfterDrop(view.db, view.h, v.val), "ok")

(***************************************************************************)
(* The specification of the connection lifecycle.                          *)
(***************************************************************************)
\* Table and column names the callers pass: a valid name, a reserved word
\* in mixed case, a name with a statement separator, the empty string.
NameT == <<"t">>
NameN == <<"n">>
NameReserved == <<"A","s">>
NameMalformed == <<"t",";">>
NameEmpty == <<>>
TableNames == {NameT, NameReserved, NameMalformed, NameEmpty}

TypeText == <<"t","e","x","t">>
TypeUnsupported == <<"x">>

\* Column lists the callers pass.
ColumnLists ==
    { <<>>,
      << <<NameN, TypeText>> >>,
      << <<NameN, TypeUnsupported>> >>,
      << <<NameReserved, TypeText>> >> }

InitConnections ==
    /\ created = [c \in ConnIds |-> FALSE]
    /\ connection = [c \in ConnIds |-> None]
    /\ in_transaction = [c \in ConnIds |-> FALSE]
    /\ last_result = [c \in ConnIds |-> NoResult]
    /\ was_closed = [c \in ConnIds |-> FALSE]
    /\ executed = [c \in ConnIds |-> FALSE]
    /\ scope = [c \in ConnIds |-> "none"]

InitEngine ==
    /\ dbapi = [d \in DbapiIds |-> NoDbapi]
    /\ pool_queue = <<>>
    /\ main_tables = {}
    /\ table_data = DataFor(dbapi, main_tables, <<>>, NewTable(<<>>))

\* The Database that Database(opts) has returned.
DatabaseOf(opts, uuid) ==
    LET d == DatabaseInit(opts, uuid)
    IN  /\ d.err = "ok"
        /\ options = opts
        /\ engine = d.engine
        /\ in_memory = d.in_memory
        /\ is_file = d.is_file
        /\ db_name = d.db_name
        /\ db_file_name = d.db_file_name
        /\ fkey_constraint = d.fkey_constraint

\* The options of a Database of either storage mode and either
\* foreign-key policy.
InitOptions ==
    { << <<"db_name", StrOption(<<"d"," ","b">>)>>, <<"is_mem", BoolOption(m)>>,
         <<"fkey_constraint", BoolOption(f)>> >> : m \in BOOLEAN, f \in BOOLEAN }

\* The options of the fixture of the tests.
FixtureOptions ==
    << <<"is_mem", BoolOption(TRUE)>>, <<"fkey_constraint", BoolOption(TRUE)>> >>

\* Database(options): the state after construction, for either storage
\* mode and either foreign-key policy.
Init ==
    /\ \E opts \in InitOptions : DatabaseOf(opts, Uuid4Text)
    /\ InitConnections
    /\ InitEngine
    /\ ret = DbReturn("Database", "ok")
    /\ identifier = <<>>
    /\ col_type = <<>>
    /\ validated = <<>>

\* Number of BaseConnection objects constructed so far.
NumCreated == Cardinality({c \in ConnIds : created[c]})

\* Callers that use the connections for statements and results only.
Next ==
    \/ CreateConnection
    \/ \E commit_fkey \in BOOLEAN : InitDb(commit_fkey)
    \/ NewConnection
    \/ InitDbAutoClose
    \/ CloseDb
    \/ \E c \in ConnIds : Open(c)
    \/ \E c \in ConnIds : Close(c)
    \/ \E c \in ConnIds, q \in Queries, p \in Parameters : Execute(c, q, p)
    \/ \E c \in ConnIds : Commit(c)
    \/ \E c \in ConnIds, all \in BOOLEAN : Fetch(c, all)
    \/ \E c \in ConnIds, commit \in BOOLEAN : EnforceForeignKeyConstraints(c, commit)

\* Callers that create and drop tables through at most MaxDdlConns
\* connections.
NextDDL ==
    \/ NumCreated < MaxDdlConns /\ CreateConnection
    \/ NumCreated < MaxDdlConns /\ \E commit_fkey \in BOOLEAN : InitDb(commit_fkey)
    \/ CloseDb
    \/ \E c \in ConnIds : Open(c)
    \/ \E c \in ConnIds : Close(c)
    \/ \E c \in ConnIds, n \in TableNames, cols \in ColumnLists, t \in BOOLEAN,
          r \in BOOLEAN : CreateTable(c, n, cols, t, r)
    \/ \E c \in ConnIds, n \in TableNames, cols \in ColumnLists, t \in BOOLEAN,
          r \in BOOLEAN : CreateTableDDL(c, n, cols, t, r)
    \/ \E c \in ConnIds, n \in TableNames, r \in BOOLEAN : DropTable(c, n, r)

Spec == Init /\ [][Next]_vars

SpecDDL == Init /\ [][NextDDL]_vars

(***************************************************************************)
(* The specification of the identifier validator: one string, validated    *)
(* on its own and as the table name and a column name of create_table and  *)
(* the table name of drop_table on the connection init_db() returned.      *)
(***************************************************************************)
\* Letters, digit and underscore of the enumerated strings, and the
\* characters an identifier must not contain.
IdentAlphabet ==
    {"a", "s", "A", "S", "_", "1",
     ";", "'", "\"", "-", " ", "(", ")", "[", "]", "{", "}", "@", "#", "$", ".",
     TAB, NL}

\* All strings over alphabet of length 0..n.
Strings(alphabet, n) == UNION {[1..k -> alphabet] : k \in 0..n}

\* str.capitalize()
Capitalize(s) == [i \in 1..Len(s) |-> IF i = 1 THEN UpperChar(s[i]) ELSE LowerChar(s[i])]

\* The upper-case word w, in lower case, capitalized, and with one letter
\* in lower case.
CaseVariants(w) ==
    {w, Lower(w), Capitalize(w)} \cup {[w EXCEPT ![k] = LowerChar(@)] : k \in 1..Len(w)}

IdentInputs ==
    Strings(IdentAlphabet, MaxIdentLen) \cup UNION {CaseVariants(w) : w \in sql_reserved_words}

\* con = Database({"is_mem": True, "fkey_constraint": True}).init_db(True),
\* the fixture of the validator's tests: connection 1 is open.
InitIdent ==
    /\ DatabaseOf(FixtureOptions, Uuid4Text)
    /\ created = [c \in ConnIds |-> c = 1]
    /\ connection = [c \in ConnIds |-> IF c = 1 THEN StaticId ELSE None]
    /\ in_transaction = [c \in ConnIds |-> FALSE]
    /\ last_result = [c \in ConnIds |-> NoResult]
    /\ was_closed = [c \in ConnIds |-> FALSE]
    /\ executed = [c \in ConnIds |-> FALSE]
    /\ scope = [c \in ConnIds |-> "none"]
    /\ dbapi = [d \in DbapiIds |->
          IF d = StaticId
            THEN [state |-> "static", temp |-> {}, foreign_keys |-> TRUE,
                  txn |-> FALSE, pending |-> <<>>]
            ELSE NoDbapi]
    /\ pool_queue = <<>>
    /\ main_tables = {}
    /\ table_data = DataFor(dbapi, main_tables, <<>>, NewTable(<<>>))
    /\ ret = [op |-> "init_db", conn |-> 1, outcome |-> "ok", was_open |-> FALSE,
              sent |-> TRUE, rows |-> <<>>]
    /\ identifier \in IdentInputs
    /\ col_type = <<>>
    /\ validated = <<>>

\* _validate_identifier(identifier)
ValidateIdentifier ==
    /\ validated = <<>>
    /\ validated' = <<validate_identifier(identifier)>>
    /\ ret' = DbReturn("validate_identifier",
                       IF validate_identifier(identifier).ok THEN "ok"
                       ELSE validate_identifier(identifier).err)
    /\ UNCHANGED <<dbVars, connVars, engineVars, identifier, col_type, scope>>

\* _validate_identifier applied to the value it returned.
Revalidate ==
    /\ Len(validated) = 1
    /\ validated[1].ok
    /\ validated' = Append(validated, validate_identifier(validated[1].val))
    /\ ret' = DbReturn("validate_identifier",
                       IF validate_identifier(validated[1].val).ok THEN "ok"
                       ELSE validate_identifier(validated[1].val).err)
    /\ UNCHANGED <<dbVars, connVars, engineVars, identifier, col_type, scope>>

OneColumn(name) == << <<name, TypeText>> >>

NextIdent ==
    \/ ValidateIdentifier
    \/ Revalidate
    \/ \E t \in BOOLEAN, r \in BOOLEAN :
          CreateTable(1, identifier, OneColumn(NameN), t, r)
    \/ \E t \in BOOLEAN, r \in BOOLEAN :
          CreateTable(1, NameT, OneColumn(identifier), t, r)
    \/ \E r \in BOOLEAN : DropTable(1, identifier, r)

SpecIdent == InitIdent /\ [][NextIdent]_vars

(***************************************************************************)
(* Properties of the identifier validator (checked under SpecIdent).       *)
(***************************************************************************)
Reserved(s) == Upper(s) \in sql_reserved_words

\* C8 (as claimed): every non-empty string that is not letters, digits and
\* underscores after a leading letter or underscore is refused with
\* MalformedIdentifier, no value being returned.
C8_MalformedRefused ==
    (Len(validated) >= 1 /\ Len(identifier) >= 1 /\ ~WholeStringIdent(identifier))
      => validated[1] = Raise("MalformedIdentifier")

\* C9: a string of the grammar that is no reserved word in any letter case
\* is returned exactly as given, and validating the returned value returns
\* it again.
C9_ValidReturnedUnchanged ==
    (Len(validated) >= 1 /\ WholeStringIdent(identifier) /\ ~Reserved(identifier))
      => /\ validated[1] = Ok(identifier)
         /\ Len(validated) = 2 => validated[2] = Ok(identifier)

C9_Witness ==
    /\ Len(validated) = 2
    /\ WholeStringIdent(identifier)
    /\ ~Reserved(identifier)
    /\ identifier # Upper(identifier)
    /\ Len(identifier) >= 2

\* C10: a reserved word in any letter case is refused with ReservedWord:
\* by the validator itself, as the table name of create_table and of
\* drop_table, and as a column name of create_table whenever the call gets
\* to its columns (with raise_if_exists the catalog is consulted first).
C10_ReservedRefused ==
    [][Reserved(identifier) =>
         /\ ret'.op = "validate_identifier" => ret'.outcome = "ReservedWord"
         /\ ret'.op = "drop_table" => ret'.outcome = "ReservedWord"
         /\ (ret'.op = "create_table" /\ ret'.outcome # "ReservedWord") =>
              \A t \in BOOLEAN, r \in BOOLEAN :
                /\ ~CreateTable(1, identifier, OneColumn(NameN), t, r)
                /\ CreateTable(1, NameT, OneColumn(identifier), t, r)
                     => r /\ CatalogHas(NameT) /\ ret'.outcome = "TableAlreadyExists"
      ]_vars

C10_Witness ==
    /\ Reserved(identifier)
    /\ identifier # Upper(identifier)
    /\ identifier # Lower(identifier)
    /\ ret.op = "drop_table"
    /\ ret.outcome = "ReservedWord"

(***************************************************************************)
(* Properties of the connection lifecycle (checked under Spec, C5 under    *)
(* SpecDDL).                                                               *)
(***************************************************************************)
\* Outcomes that reject the arguments of a call.
ArgErrors ==
    {"EmptyQuery", "ArgTypeError", "EmptyTableName", "EmptyIdentifier",
     "MalformedIdentifier", "ReservedWord", "UnsupportedType", "MalformedType"}

\* Outcomes of the kind ConnectionStateError.
ConnectionStateErrors == {"NotOpen", "AlreadyOpen", "NoResult"}

\* The BaseConnections that hold an engine handle.
OpenConns == {c \in ConnIds : connection[c] # None}

\* C1 (as claimed): an in-memory Database has at most one open Connection
\* at any time.
C1_InMemoryAtMostOneOpen == in_memory => Cardinality(OpenConns) <= 1

\* C2 (as claimed): close_db leaves the Database with no open Connection.
C2_CloseDbLeavesNoneOpen == ret.op = "close_db" => OpenConns = {}

\* C3 (as claimed): once close() has returned on a Connection, execute,
\* commit, fetchone, fetchall, create_table and drop_table with valid
\* arguments fail with NotOpen.
C3_ClosedRejectsWithNotOpen ==
    [][\A c \in ConnIds :
         ( /\ was_closed[c]
           /\ ret'.conn = c
           /\ ret'.op \in {"execute", "commit", "fetchone", "fetchall",
                           "create_table", "drop_table"}
           /\ ret'.outcome \notin ArgErrors )
         => ret'.outcome = "NotOpen"]_vars

\* C4 (as claimed): fetchone and fetchall fail with NoResultAvailable
\* whenever no execute has succeeded since the most recent open().
C4_FetchNeedsExecuteSinceOpen ==
    [][\A c \in ConnIds :
         (~executed[c] /\ ret'.conn = c /\ ret'.op \in {"fetchone", "fetchall"})
         => ret'.outcome = "NoResult"]_vars

\* C5 (as claimed): on a Connection without a handle, execute, commit,
\* create_table, create_table_with_sqlalchemy_ddl and drop_table with valid
\* arguments fail with NotOpen and leave the engine's tables as they were.
C5_NoStatementWhileNotOpen ==
    [][\A c \in ConnIds :
         ( /\ created[c]
           /\ connection[c] = None
           /\ ret'.conn = c
           /\ ret'.op \in {"execute", "commit", "create_table",
                           "create_table_with_sqlalchemy_ddl", "drop_table"}
           /\ ret'.outcome \notin ArgErrors )
         => /\ ret'.outcome = "NotOpen"
            /\ main_tables' = main_tables
            /\ \A d \in DbapiIds : dbapi'[d].temp = dbapi[d].temp]_vars

ValidationErrors ==
    {"EmptyIdentifier", "MalformedIdentifier", "ReservedWord", "UnsupportedType",
     "MalformedType"}

\* The BaseConnection c holds a handle on a working sqlite3 connection.
IsOpen(c) == connection[c] \in DbapiIds

\* A table of exactly the name n exists for the statements of c: in the
\* main schema or in the temp schema of its handle.
TableExists(c, n) == n \in main_tables \/ n \in dbapi[connection[c]].temp

\* The tables the statements of c see, and the columns and rows of all.
TablesSeen(c) == <<main_tables, dbapi[connection[c]].temp, table_data>>

\* C11 (as claimed): on an open connection a create_table that fails with
\* a ValidationError has had no statement run by the engine, and a call
\* with raise_if_exists whose table name is valid and exists and whose
\* columns are invalid fails with the ValidationError.
C11_ValidationBeforeAnyStatement ==
    [][\A c \in ConnIds :
         (ret'.op = "create_table" /\ ret'.conn = c /\ IsOpen(c)) =>
           /\ ret'.outcome \in ValidationErrors => ~ret'.sent
           /\ \A n \in TableNames, cols \in ColumnLists, t \in BOOLEAN :
                ( /\ validate_identifier(n).ok
                  /\ ~column_definitions(cols).ok
                  /\ TableExists(c, n)
                  /\ CreateTable(c, n, cols, t, TRUE) )
                => ret'.outcome \in ValidationErrors]_vars

\* C12 (as claimed): on an open connection create_table with
\* raise_if_exists, a valid name and valid columns (at least one) fails
\* with TableAlreadyExists exactly when a table of that name exists,
\* temporary or not.
C12_AlreadyExistsIffExists ==
    [][\A c \in ConnIds :
         (ret'.op = "create_table" /\ ret'.conn = c /\ IsOpen(c)) =>
           \A n \in TableNames, cols \in ColumnLists, t \in BOOLEAN :
             ( /\ validate_identifier(n).ok
               /\ Len(cols) > 0
               /\ column_definitions(cols).ok
               /\ CreateTable(c, n, cols, t, TRUE) )
             => (ret'.outcome = "TableAlreadyExists" <=> TableExists(c, n))]_vars

\* C13 (as claimed): on an open connection drop_table with
\* raise_if_not_exists fails with TableNotFound exactly when no table of
\* that name exists; when one exists the call succeeds and none exists
\* afterwards.
C13_NotFoundIffMissing ==
    [][\A c \in ConnIds :
         (ret'.op = "drop_table" /\ ret'.conn = c /\ IsOpen(c)) =>
           \A n \in TableNames :
             (validate_identifier(n).ok /\ DropTable(c, n, TRUE))
             => /\ ret'.outcome = "TableNotFound" <=> ~TableExists(c, n)
                /\ TableExists(c, n) =>
                     (ret'.outcome = "ok" /\ ~TableExists(c, n)')]_vars

\* C14 (as claimed): on an open connection drop_table without
\* raise_if_not_exists on a name no table has, and create_table without
\* raise_if_exists, with valid columns (at least one), on a name a table
\* has, succeed and leave the tables the connection sees, their columns
\* and their rows as they were.
C14_AbsorbedConditionsAreNoOps ==
    [][\A c \in ConnIds :
         (ret'.conn = c /\ IsOpen(c)) =>
           \A n \in TableNames :
             validate_identifier(n).ok =>
               /\ ( /\ ret'.op = "drop_table"
                    /\ ~TableExists(c, n)
                    /\ DropTable(c, n, FALSE) )
                  => (ret'.outcome = "ok" /\ TablesSeen(c)' = TablesSeen(c))
               /\ \A cols \in ColumnLists, t \in BOOLEAN :
                    ( /\ ret'.op = "create_table"
                      /\ TableExists(c, n)
                      /\ Len(cols) > 0
                      /\ column_definitions(cols).ok
                      /\ CreateTable(c, n, cols, t, FALSE) )
                    => (ret'.outcome = "ok" /\ TablesSeen(c)' = TablesSeen(c))]_vars

(***************************************************************************)
(* The specification of the column-type validator: one string, validated   *)
(* on its own and as the type of a column of create_table on the           *)
(* connection init_db() returned.                                          *)
(***************************************************************************)
\* Base types the strings start with: none, allow-listed ones in upper,
\* lower and mixed case, and one that is not allow-listed.
TypeBases ==
    { <<>>, <<"T","E","X","T">>, TypeText, <<"I","n","t">>,
      <<"V","A","R","C","H","A","R">>, <<"D","E","C","I","M","A","L">>,
      <<"B","A","D">> }

\* Characters of what follows the base type.
TypeAlphabet == {"(", ")", "1", ",", " ", ";", "x", NL}

\* What follows the base type: every short string, a precision with a
\* scale, a length followed by a letter, and a second statement.
TypeSuffixes ==
    Strings(TypeAlphabet, MaxSuffixLen)
      \cup { <<"(","1",",","1",")">>, <<"(","1",")","x">>, <<"(","1",")","(","1",")">>,
             <<";"," ","x"," ","x">> }

TypeInputs ==
    { lead \o base \o suffix :
        lead \in {<<>>, <<" ">>}, base \in TypeBases, suffix \in TypeSuffixes }

\* The fixture of the validator's tests, and a column type.
InitType ==
    /\ DatabaseOf(FixtureOptions, Uuid4Text)
    /\ created = [c \in ConnIds |-> c = 1]
    /\ connection = [c \in ConnIds |-> IF c = 1 THEN StaticId ELSE None]
    /\ in_transaction = [c \in ConnIds |-> FALSE]
    /\ last_result = [c \in ConnIds |-> NoResult]
    /\ was_closed = [c \in ConnIds |-> FALSE]
    /\ executed = [c \in ConnIds |-> FALSE]
    /\ scope = [c \in ConnIds |-> "none"]
    /\ dbapi = [d \in DbapiIds |->
          IF d = StaticId
            THEN [state |-> "static", temp |-> {}, foreign_keys |-> TRUE,
                  txn |-> FALSE, pending |-> <<>>]
            ELSE NoDbapi]
    /\ pool_queue = <<>>
    /\ main_tables = {}
    /\ table_data = DataFor(dbapi, main_tables, <<>>, NewTable(<<>>))
    /\ ret = [op |-> "init_db", conn |-> 1, outcome |-> "ok", was_open |-> FALSE,
              sent |-> TRUE, rows |-> <<>>]
    /\ identifier = <<>>
    /\ col_type \in TypeInputs
    /\ validated = <<>>

\* _validate_column_type(col_type)
ValidateColumnType ==
    /\ validated = <<>>
    /\ validated' = <<validate_column_type(col_type)>>
    /\ ret' = DbReturn("validate_column_type",
                       IF validate_column_type(col_type).ok THEN "ok"
                       ELSE validate_column_type(col_type).err)
    /\ UNCHANGED <<dbVars, connVars, engineVars, identifier, col_type, scope>>

OneTypedColumn(type) == << <<NameN, type>> >>

NextType ==
    \/ ValidateColumnType
    \/ \E t \in BOOLEAN, r \in BOOLEAN :
          CreateTable(1, NameT, OneTypedColumn(col_type), t, r)

SpecType == InitType /\ [][NextType]_vars

(***************************************************************************)
(* Properties of the column-type validator (checked under SpecType).       *)
(***************************************************************************)
\* The input as the validator compares it, its leading run of letters, and
\* what follows the run.
Normalized(type) == Strip(Upper(type))
BaseOf(type) == SubSeq(Normalized(type), 1, LeadingRun(Normalized(type), AsciiUpper))
RestOf(type) ==
    SubSeq(Normalized(type), LeadingRun(Normalized(type), AsciiUpper) + 1,
           Len(Normalized(type)))

\* One parenthesized group of digits, commas and whitespace.
IsSpecifierGroup(s) ==
    /\ Len(s) >= 3
    /\ s[1] = "("
    /\ s[Len(s)] = ")"
    /\ \A i \in 2..(Len(s) - 1) : s[i] \in AsciiDigit \cup {","} \cup Whitespace

\* The validator returned no value for the input, and a create_table with
\* a column of that type has left the tables as they were.
TypeRefused ==
    /\ Len(validated) >= 1 => ~validated[1].ok
    /\ ret.op = "create_table" =>
         (ret.outcome # "ok" /\ main_tables = {} /\ dbapi[StaticId].temp = {})

\* C15 (as claimed): an input whose leading run of letters is not an
\* allow-listed base type is refused with UnsupportedType; one whose base
\* type is allow-listed and is followed by anything but one parenthesized
\* group of digits, commas and whitespace is refused with MalformedType.
C15_RefusedByKind ==
    /\ BaseOf(col_type) \notin allowed_types =>
         /\ TypeRefused
         /\ Len(validated) >= 1 => validated[1] = Raise("UnsupportedType")
    /\ ( /\ BaseOf(col_type) \in allowed_types
         /\ Len(RestOf(col_type)) > 0
         /\ ~IsSpecifierGroup(RestOf(col_type)) ) =>
         /\ TypeRefused
         /\ Len(validated) >= 1 => validated[1] = Raise("MalformedType")

\* C15 (amended): as above, but an input with no leading letter at all is
\* refused with MalformedType, not UnsupportedType.
C15_RefusedByKindOrNoBase ==
    /\ Len(BaseOf(col_type)) = 0 =>
         /\ TypeRefused
         /\ Len(validated) >= 1 => validated[1] = Raise("MalformedType")
    /\ (Len(BaseOf(col_type)) > 0 /\ BaseOf(col_type) \notin allowed_types) =>
         /\ TypeRefused
         /\ Len(validated) >= 1 => validated[1] = Raise("UnsupportedType")
    /\ ( /\ BaseOf(col_type) \in allowed_types
         /\ Len(RestOf(col_type)) > 0
         /\ ~IsSpecifierGroup(RestOf(col_type)) ) =>
         /\ TypeRefused
         /\ Len(validated) >= 1 => validated[1] = Raise("MalformedType")

\* An allow-listed base type followed by a statement separator has been
\* refused by the validator.
C15_Witness ==
    /\ BaseOf(col_type) \in allowed_types
    /\ \E i \in 1..Len(RestOf(col_type)) : RestOf(col_type)[i] = ";"
    /\ Len(validated) = 1
    /\ validated[1] = Raise("MalformedType")

(***************************************************************************)
(* The specification of Database construction: one options map, handed to  *)
(* Database(options) once.                                                  *)
(***************************************************************************)
OptionKeys == {"db_name", "is_mem", "fkey_constraint", "timeout"}

OptionValues ==
    {StrOption(<<"d"," ","b">>), StrOption(<<>>), BoolOption(TRUE),
     BoolOption(FALSE), IntOption, NoneOption}

\* The options maps of at most MaxOptions items.
OptionMaps ==
    { m \in UNION { [1..n -> OptionKeys \X OptionValues] : n \in 0..MaxOptions } :
        \A i, j \in 1..Len(m) : m[i][1] = m[j][1] => i = j }

\* No Database object: the constructor has not returned one.
NoDatabase ==
    /\ engine = "none"
    /\ in_memory = FALSE
    /\ is_file = FALSE
    /\ db_name = <<>>
    /\ db_file_name = <<>>
    /\ fkey_constraint = FALSE

InitOptionMaps ==
    /\ options \in OptionMaps
    /\ NoDatabase
    /\ InitConnections
    /\ InitEngine
    /\ ret = DbReturn("none", "ok")
    /\ identifier = <<>>
    /\ col_type = <<>>
    /\ validated = <<>>

\* Database(options)
NewDatabase ==
    LET d == DatabaseInit(options, Uuid4Text)
    IN  /\ ret.op = "none"
        /\ ret' = DbReturn("Database", d.err)
        /\ IF d.err = "ok"
             THEN /\ engine' = d.engine
                  /\ in_memory' = d.in_memory
                  /\ is_file' = d.is_file
                  /\ db_name' = d.db_name
                  /\ db_file_name' = d.db_file_name
                  /\ fkey_constraint' = d.fkey_constraint
             ELSE UNCHANGED <<engine, in_memory, is_file, db_name, db_file_name,
                              fkey_constraint>>
        /\ UNCHANGED <<options, connVars, engineVars, identVars, scope>>

NextOptions == NewDatabase

SpecOptions == InitOptionMaps /\ [][NextOptions]_vars

(***************************************************************************)
(* Properties of Database construction (checked under SpecOptions).        *)
(***************************************************************************)
UnknownKey(opts) == \E i \in 1..Len(opts) : opts[i][1] \notin DOMAIN valid_options

MistypedValue(opts) ==
    \E i \in 1..Len(opts) :
        /\ opts[i][1] \in DOMAIN valid_options
        /\ opts[i][2].type # valid_options[opts[i][1]]

\* C16: once Database(options) has returned, an options map with a key
\* other than db_name, is_mem, fkey_constraint, or with a recognized key
\* whose value is not of the expected type, has been rejected: with
\* InvalidOption when only the former holds, with OptionTypeMismatch when
\* only the latter holds, with one of the two when both hold; and on
\* rejection there is no Database object and no engine.
C16_OptionsRejected ==
    ret.op = "Database" =>
      /\ (UnknownKey(options) \/ MistypedValue(options)) =>
           /\ ret.outcome \in {"InvalidOption", "OptionTypeMismatch"}
           /\ NoDatabase
      /\ (UnknownKey(options) /\ ~MistypedValue(options)) =>
           ret.outcome = "InvalidOption"
      /\ (MistypedValue(options) /\ ~UnknownKey(options)) =>
           ret.outcome = "OptionTypeMismatch"

\* A map whose only fault is a value of the wrong type has been rejected,
\* and so has a map whose only fault is an unknown key.
C16_Witness ==
    /\ ret.op = "Database"
    /\ ~UnknownKey(options)
    /\ options = << <<"fkey_constraint", BoolOption(TRUE)>>, <<"is_mem", IntOption>> >>
    /\ ret.outcome = "OptionTypeMismatch"
    /\ NoDatabase

(***************************************************************************)
(* Properties of init_db_auto_close (checked under Spec).                  *)
(***************************************************************************)
\* C17: init_db_auto_close on an in-memory Database fails with
\* InMemoryCannotAutoClose and neither constructs nor opens a Connection;
\* on a file-backed Database the Connections that are open after the call
\* are those that were open before it, as many handles are checked out of
\* the pool as before, and the one Connection it constructed and opened is
\* closed again.
C17_AutoCloseOpensNothingOrClosesIt ==
    [][ret'.op = "init_db_auto_close" =>
         /\ in_memory =>
              /\ ret'.outcome = "InMemoryCannotAutoClose"
              /\ created' = created
              /\ connection' = connection
              /\ dbapi' = dbapi
         /\ ~in_memory =>
              /\ OpenConns' = OpenConns
              /\ CheckedOut' = CheckedOut
              /\ ret'.outcome = "ok" =>
                   /\ ~created[ret'.conn]
                   /\ created' = [created EXCEPT ![ret'.conn] = TRUE]
                   /\ connection'[ret'.conn] = None
                   /\ was_closed'[ret'.conn]]_vars

\* init_db_auto_close has returned on a file-backed Database while another
\* Connection of it is open.
C17_Witness ==
    /\ ~in_memory
    /\ ret.op = "init_db_auto_close"
    /\ ret.outcome = "ok"
    /\ was_closed[ret.conn]
    /\ OpenConns # {}

(***************************************************************************)
(* FileConnectionCtx: the with statement.  The specification of scoped     *)
(* acquisition: callers that use FileConnectionCtx objects in with         *)
(* statements, and init_db_auto_close, on a Database whose file holds the  *)
(* table with the deferred foreign key.                                    *)
(***************************************************************************)
\* FileConnectionCtx(db): BaseConnection.__init__, then the refusal of a
\* Database that is not file-backed; the object is then never bound.
NewFileConnectionCtx ==
    IF ~is_file
      THEN /\ ret' = DbReturn("FileConnectionCtx", "NotFileBacked")
           /\ UNCHANGED <<dbVars, connVars, engineVars, identVars, scope>>
      ELSE /\ \E x \in ConnIds : ~created[x]
           /\ created' = [created EXCEPT ![NewConn] = TRUE]
           /\ scope' = [scope EXCEPT ![NewConn] = "constructed"]
           /\ ret' = Return("FileConnectionCtx", NewConn, "ok")
           /\ UNCHANGED <<dbVars, connection, in_transaction, last_result,
                          was_closed, executed, engineVars, identVars>>

\* FileConnectionCtx.__enter__(): open(), enforce_foreign_key_constraints(True).
\* When either raises, the with statement is over: __exit__ is not called.
Enter(c) ==
    LET e == EngineConnect
        k == EnforceResult(e.db, table_data, e.h, TRUE)
    IN  /\ scope[c] = "constructed"
        /\ IF connection[c] # None
             THEN /\ ret' = Return("__enter__", c, "AlreadyOpen")
                  /\ scope' = [scope EXCEPT ![c] = "ended"]
                  /\ UNCHANGED <<dbVars, connVars, engineVars, identVars>>
           ELSE IF ~e.ok
             THEN /\ ret' = Return("__enter__", c, "PoolTimeout")
                  /\ scope' = [scope EXCEPT ![c] = "ended"]
                  /\ UNCHANGED <<dbVars, connVars, engineVars, identVars>>
           ELSE /\ ret' = [Return("__enter__", c,
                                  IF k.ok THEN "ok" ELSE "EngineError")
                             EXCEPT !.sent = fkey_constraint]
                /\ scope' = [scope EXCEPT ![c] = IF k.ok THEN "entered" ELSE "ended"]
                /\ connection' = [connection EXCEPT ![c] = e.h]
                /\ in_transaction' = [in_transaction EXCEPT
                                        ![c] = fkey_constraint /\ ~k.ok]
                /\ dbapi' = k.db
                /\ pool_queue' = e.queue
                /\ table_data' = k.data
                /\ was_closed' = [was_closed EXCEPT ![c] = FALSE]
                /\ executed' = [executed EXCEPT ![c] = FALSE]
                /\ UNCHANGED <<dbVars, created, last_result, main_tables, identVars>>

\* The caller's block raises: no more of it runs, and __exit__ is called.
BlockRaises(c) ==
    /\ scope[c] = "entered"
    /\ scope' = [scope EXCEPT ![c] = "raised"]
    /\ ret' = Return("with_block", c, "Error")
    /\ UNCHANGED <<dbVars, connVars, engineVars, identVars>>

\* FileConnectionCtx.__exit__(exc_type, exc_value, exc_tb): close(), at the
\* end of the block and when the block has raised.
Exit(c) ==
    /\ scope[c] \in {"entered", "raised"}
    /\ scope' = [scope EXCEPT ![c] = "ended"]
    /\ CloseAs("__exit__", c)

\* A statement of the caller's block.
BlockExecute(c, query, parameters) ==
    /\ scope[c] = "entered"
    /\ Execute(c, query, parameters)

\* A parent no row has as its id.
NoParent == IntegerValue(7)

\* The statements of the callers' blocks, each with its parameters.
BlockStatements ==
    {<<"SELECT 1", NoParameters>>, <<Begin, NoParameters>>,
     <<InsertChild, TupleParameters(<<NoParent>>)>>}

InitCtx ==
    /\ \E opts \in InitOptions : DatabaseOf(opts, Uuid4Text)
    /\ InitConnections
    /\ dbapi = [d \in DbapiIds |-> NoDbapi]
    /\ pool_queue = <<>>
    /\ main_tables = IF is_file THEN {NameChild} ELSE {}
    /\ table_data = DataFor(dbapi, main_tables, <<>>, NewTable(ChildColumns))
    /\ ret = DbReturn("Database", "ok")
    /\ identifier = <<>>
    /\ col_type = <<>>
    /\ validated = <<>>

NextCtx ==
    \/ NewFileConnectionCtx
    \/ InitDbAutoClose
    \/ \E c \in ConnIds : Enter(c)
    \/ \E c \in ConnIds, st \in BlockStatements : BlockExecute(c, st[1], st[2])
    \/ \E c \in ConnIds : BlockRaises(c)
    \/ \E c \in ConnIds : Exit(c)

SpecCtx == InitCtx /\ [][NextCtx]_vars

(***************************************************************************)
(* Properties of scoped acquisition (checked under SpecCtx).               *)
(***************************************************************************)
\* C18 (as claimed): once the with statement of a FileConnectionCtx is
\* over, however it ended, the object holds no handle; and so does the
\* Connection of an init_db_auto_close that has returned or raised.
C18_ScopeEndReleases ==
    /\ \A c \in ConnIds : scope[c] = "ended" => connection[c] = None
    /\ (ret.op = "init_db_auto_close" /\ ret.conn \in ConnIds) =>
         connection[ret.conn] = None

(***************************************************************************)
(* The specification of rows: the connection of the fixture creates the    *)
(* table t with two columns, inserts rows with bound values and reads them *)
(* back.                                                                   *)
(***************************************************************************)
NameM == <<"m">>
TypeInteger == <<"i","n","t","e","g","e","r">>

RowColumnLists ==
    { << <<NameN, TypeText>>, <<NameM, TypeInteger>> >>,
      << <<NameM, TypeInteger>>, <<NameN, TypeText>> >> }

\* Values the callers bind.
RowValues == {TextValue("hello"), IntegerValue(3), TextValue("3")}

RowStatements ==
    {<<SelectAll, NoParameters>>}
      \cup {<<InsertNM, TupleParameters(<<v, w>>)>> : v \in RowValues, w \in RowValues}

InitRows ==
    /\ DatabaseOf(FixtureOptions, Uuid4Text)
    /\ created = [c \in ConnIds |-> c = 1]
    /\ connection = [c \in ConnIds |-> IF c = 1 THEN StaticId ELSE None]
    /\ in_transaction = [c \in ConnIds |-> FALSE]
    /\ last_result = [c \in ConnIds |-> NoResult]
    /\ was_closed = [c \in ConnIds |-> FALSE]
    /\ executed = [c \in ConnIds |-> FALSE]
    /\ scope = [c \in ConnIds |-> "none"]
    /\ dbapi = [d \in DbapiIds |->
          IF d = StaticId
            THEN [NoDbapi EXCEPT !.state = "static", !.foreign_keys = TRUE]
            ELSE NoDbapi]
    /\ pool_queue = <<>>
    /\ main_tables = {}
    /\ table_data = DataFor(dbapi, main_tables, <<>>, NewTable(<<>>))
    /\ ret = Sent("init_db", 1, "ok")
    /\ identifier = <<>>
    /\ col_type = <<>>
    /\ validated = <<>>

NextRows ==
    \/ \E cols \in RowColumnLists, r \in BOOLEAN :
          CreateTable(1, NameT, cols, FALSE, r)
    \/ \E st \in RowStatements : Execute(1, st[1], st[2])
    \/ Fetch(1, TRUE)

SpecRows == InitRows /\ [][NextRows]_vars

(***************************************************************************)
(* Properties of rows (checked under SpecRows).                            *)
(***************************************************************************)
\* The table t of the main schema.
TKey == <<MainSchema, NameT>>

\* create_table has made the table t from cols: id is its first column and
\* the columns of cols follow under their names, in their order.
CreatedInOrder(cols) ==
    /\ TKey \in DOMAIN table_data'
    /\ Len(table_data'[TKey].columns) = Len(cols) + 1
    /\ table_data'[TKey].columns[1][1] = <<"i","d">>
    /\ \A i \in 1..Len(cols) : table_data'[TKey].columns[i + 1][1] = cols[i][1]

\* The step has added one row to t, the how-manieth row being its id, with
\* n_value in the column n and m_value in the column m.
RowAdded(n_value, m_value) ==
    LET t == table_data'[TKey]
        k == Len(t.rows)
    IN  /\ k = Len(table_data[TKey].rows) + 1
        /\ SubSeq(t.rows, 1, k - 1) = table_data[TKey].rows
        /\ t.rows[k][1] = IntegerValue(k)
        /\ t.rows[k][ColumnIndex(t, NameN)] = n_value
        /\ t.rows[k][ColumnIndex(t, NameM)] = m_value

\* execute('SELECT * FROM t') stores the rows of t, and fetchall returns
\* the rows of the stored result that were not fetched yet.
ReadBack ==
    /\ (ret'.op = "execute" /\ ret'.outcome = "ok"
          /\ Execute(1, SelectAll, NoParameters)) =>
         /\ last_result'[1].rows = table_data[TKey].rows
         /\ last_result'[1].left = Len(table_data[TKey].rows)
    /\ (ret'.op = "fetchall" /\ ret'.outcome = "ok") =>
         ret'.rows = SubSeq(last_result[1].rows,
                            Len(last_result[1].rows) - last_result[1].left + 1,
                            Len(last_result[1].rows))

\* C19 (as claimed): the table create_table makes has id as its first
\* column and then the given columns in their order; the k-th row inserted
\* has id k and holds the bound values, whatever they are; SELECT * and
\* fetchall return the rows so made.
C19_RowIsIdThenBoundValues ==
    [][/\ \A cols \in RowColumnLists, r \in BOOLEAN :
            ( /\ ret'.op = "create_table"
              /\ ret'.outcome = "ok"
              /\ TKey \notin DOMAIN table_data
              /\ CreateTable(1, NameT, cols, FALSE, r) ) => CreatedInOrder(cols)
       /\ \A v \in RowValues, w \in RowValues :
            ( /\ ret'.op = "execute"
              /\ ret'.outcome = "ok"
              /\ Execute(1, InsertNM, TupleParameters(<<v, w>>)) ) => RowAdded(v, w)
       /\ ReadBack]_vars

\* The text the engine stores in the TEXT column n for a bound value, and
\* the value it stores in the INTEGER column m.
AsText(v) == IF v.class = "integer" THEN TextValue(DecimalText(v.num)) ELSE v
AsInteger(v) ==
    IF v.class = "text" /\ IsIntegerText(v.text)
      THEN IntegerValue(IntegerOfText(v.text))
      ELSE v

\* C19 (amended): as above, but the row holds each bound value as its
\* column stores it: a text bound to the TEXT column and an integer bound
\* to the INTEGER column are held as they are, an integer bound to the
\* TEXT column is held as its decimal text, and a text that is an integer
\* literal bound to the INTEGER column is held as that integer.
C19_RowIsIdThenStoredValues ==
    [][/\ \A cols \in RowColumnLists, r \in BOOLEAN :
            ( /\ ret'.op = "create_table"
              /\ ret'.outcome = "ok"
              /\ TKey \notin DOMAIN table_data
              /\ CreateTable(1, NameT, cols, FALSE, r) ) => CreatedInOrder(cols)
       /\ \A v \in RowValues, w \in RowValues :
            ( /\ ret'.op = "execute"
              /\ ret'.outcome = "ok"
              /\ Execute(1, InsertNM, TupleParameters(<<v, w>>)) ) =>
              /\ RowAdded(AsText(v), AsInteger(w))
              /\ (v.class = "text" /\ w.class = "integer") => RowAdded(v, w)
       /\ ReadBack]_vars

\* fetchall has returned the one row of t, made from a text and an integer
\* bound to the columns n and m, in the order the table was given.
C19_Witness ==
    /\ ret.op = "fetchall"
    /\ ret.outcome = "ok"
    /\ TKey \in DOMAIN table_data
    /\ table_data[TKey].columns[2][1] = NameN
    /\ ret.rows = << <<IntegerValue(1), TextValue("hello"), IntegerValue(3)>> >>
    /\ table_data[TKey].rows = ret.rows

(***************************************************************************)
(* The specification of the stored result: the connection of the fixture   *)
(* executes statements, fetches, commits, enforces foreign keys, creates   *)
(* and drops the table t, and is closed and opened again.                  *)
(***************************************************************************)
ResultStatements ==
    {<<q, p>> : q \in Queries \cup {SelectAll}, p \in {NoParameters, ListParameters}}
      \cup {<<InsertN, TupleParameters(<<TextValue("hello")>>)>>}

NextResult ==
    \/ \E st \in ResultStatements : Execute(1, st[1], st[2])
    \/ \E all \in BOOLEAN : Fetch(1, all)
    \/ Commit(1)
    \/ \E commit \in BOOLEAN : EnforceForeignKeyConstraints(1, commit)
    \/ \E t \in BOOLEAN, r \in BOOLEAN :
          CreateTable(1, NameT, << <<NameN, TypeText>> >>, t, r)
    \/ \E r \in BOOLEAN : DropTable(1, NameT, r)
    \/ Close(1)
    \/ Open(1)

SpecResult == InitRows /\ [][NextResult]_vars

(***************************************************************************)
(* Properties of the stored result (checked under SpecResult).             *)
(***************************************************************************)
\* The rows of a stored result that were not fetched yet.
Unfetched(result) ==
    SubSeq(result.rows, Len(result.rows) - result.left + 1, Len(result.rows))

\* C20: an execute that succeeds stores a new result, of which nothing is
\* fetched yet (for SELECT 1 the row (1), for SELECT * the rows of the
\* table); an execute that fails, and every create_table, drop_table,
\* commit and enforce_foreign_key_constraints, leaves the stored result as
\* it was; fetchone returns the first and fetchall all of the rows of the
\* stored result that were not fetched yet.
C20_StoredResultIsOfLastExecute ==
    [][\A c \in ConnIds :
         ret'.conn = c =>
           /\ (ret'.op = "execute" /\ ret'.outcome = "ok") =>
                /\ last_result'[c].set
                /\ last_result'[c].live
                /\ last_result'[c].left = Len(last_result'[c].rows)
                /\ Execute(c, "SELECT 1", NoParameters) =>
                     last_result'[c].rows = << <<IntegerValue(1)>> >>
                /\ Execute(c, SelectAll, NoParameters) =>
                     \E k \in DOMAIN table_data :
                        /\ k[2] = NameT
                        /\ last_result'[c].rows = table_data[k].rows
                /\ Execute(c, InsertN, TupleParameters(<<TextValue("hello")>>)) =>
                     ~last_result'[c].returns_rows
           /\ (ret'.op = "execute" /\ ret'.outcome # "ok") =>
                last_result' = last_result
           /\ ret'.op \in {"create_table", "drop_table", "commit",
                           "enforce_foreign_key_constraints"} =>
                last_result' = last_result
           /\ (ret'.op = "fetchone" /\ ret'.outcome = "ok") =>
                ret'.rows = SubSeq(Unfetched(last_result[c]), 1,
                                   IF last_result[c].left = 0 THEN 0 ELSE 1)
           /\ (ret'.op = "fetchall" /\ ret'.outcome = "ok") =>
                ret'.rows = Unfetched(last_result[c])]_vars

\* An execute with an empty query has failed on a connection that holds a
\* result with a row not fetched yet.
C20_Witness ==
    /\ ret.op = "execute"
    /\ ret.outcome = "EmptyQuery"
    /\ last_result[ret.conn].set
    /\ last_result[ret.conn].left > 0

(***************************************************************************)
(* Properties of the foreign-key directive (checked under Spec).           *)
(***************************************************************************)
\* C21: a call of enforce_foreign_key_constraints that returns has sent
\* the directive exactly when the policy of the Database is enabled, and
\* then the handle enforces foreign keys; with the policy enabled it has
\* committed exactly when commit is true; with the policy disabled the
\* call sends nothing and changes nothing.  init_db(commit_fkey) that
\* returns has opened the Connection it returns and has sent the directive
\* on it exactly when the policy is enabled.
C21_DirectiveIffPolicy ==
    [][\A c \in ConnIds :
         ret'.conn = c =>
           /\ ret'.op \in {"enforce_foreign_key_constraints", "init_db"} =>
                (ret'.sent => fkey_constraint)
           /\ (ret'.op = "enforce_foreign_key_constraints" /\ ret'.outcome = "ok") =>
                /\ ret'.sent <=> fkey_constraint
                /\ fkey_constraint =>
                     /\ connection'[c] \in DbapiIds
                     /\ dbapi'[connection'[c]].foreign_keys
                     /\ \A commit \in BOOLEAN :
                          EnforceForeignKeyConstraints(c, commit) =>
                            (in_transaction'[c] <=> ~commit)
                /\ ~fkey_constraint =>
                     UNCHANGED <<connVars, engineVars>>
           /\ (ret'.op = "init_db" /\ ret'.outcome = "ok") =>
                /\ ~created[c]
                /\ connection'[c] \in DbapiIds
                /\ ret'.sent <=> fkey_constraint
                /\ fkey_constraint => dbapi'[connection'[c]].foreign_keys
                /\ \A commit_fkey \in BOOLEAN :
                     InitDb(commit_fkey) =>
                       (in_transaction'[c] <=> (fkey_constraint /\ ~commit_fkey))]_vars

\* enforce_foreign_key_constraints(True) has returned on an open
\* Connection of a Database whose policy is enabled.
C21_Witness ==
    /\ fkey_constraint
    /\ ret.op = "enforce_foreign_key_constraints"
    /\ ret.outcome = "ok"
    /\ ret.sent
    /\ ret.was_open
    /\ ~in_transaction[ret.conn]


(***************************************************************************)
(* Shape of a validated column type (checked under SpecType).              *)
(***************************************************************************)
\* The comma-free stretches of s, as pairs of first and last position; an
\* empty stretch has its last position just before its first.
Stretches(s) ==
    { p \in (1..(Len(s) + 1)) \X (0..Len(s)) :
        /\ p[1] <= p[2] + 1
        /\ p[1] = 1 \/ s[p[1] - 1] = ","
        /\ p[2] = Len(s) \/ s[p[2] + 1] = ","
        /\ \A k \in p[1]..p[2] : s[k] # "," }

\* A non-negative integer, possibly with blanks around it.
IsUnsignedInteger(s) ==
    /\ Len(Strip(s)) > 0
    /\ \A k \in 1..Len(Strip(s)) : Strip(s)[k] \in AsciiDigit

\* A parenthesized list of one or more non-negative integers separated by
\* commas.
IsNumericSpecifier(s) ==
    /\ Len(s) >= 3
    /\ s[1] = "("
    /\ s[Len(s)] = ")"
    /\ \A p \in Stretches(SubSeq(s, 2, Len(s) - 1)) :
         IsUnsignedInteger(SubSeq(SubSeq(s, 2, Len(s) - 1), p[1], p[2]))

\* C22: every value the validator returns is the input upper-cased and
\* trimmed, and is an allow-listed base type alone or followed by one
\* parenthesized list of non-negative integers separated by commas.
C22_ReturnedIsNormalizedNumericShape ==
    (Len(validated) >= 1 /\ validated[1].ok) =>
        /\ validated[1].val = Normalized(col_type)
        /\ BaseOf(col_type) \in allowed_types
        /\ \/ RestOf(col_type) = <<>>
           \/ IsNumericSpecifier(RestOf(col_type))

\* The part of C22 without the digits: the value is the normalized input,
\* an allow-listed base type alone or followed by one group of digits,
\* commas and whitespace.
C22_ReturnedIsNormalizedGroupShape ==
    (Len(validated) >= 1 /\ validated[1].ok) =>
        /\ validated[1].val = Normalized(col_type)
        /\ BaseOf(col_type) \in allowed_types
        /\ \/ RestOf(col_type) = <<>>
           \/ IsSpecifierGroup(RestOf(col_type))

\* A type with a group that holds no digit has been returned.
C22_DigitlessGroupReturned ==
    /\ Len(validated) >= 1 /\ validated[1].ok
    /\ IsSpecifierGroup(RestOf(col_type))
    /\ \A k \in 1..Len(RestOf(col_type)) : RestOf(col_type)[k] \notin AsciiDigit


(***************************************************************************)
(* The specification of the in-memory store: the connection of the         *)
(* fixture creates the table t, regular or temporary; it and a second one  *)
(* insert into t inside and outside transactions, read it, commit, are     *)
(* closed and opened again, and the Database is closed.                    *)
(***************************************************************************)
StoreColumns == << <<NameN, TypeText>> >>

StoreStatements ==
    { <<Begin, NoParameters>>, <<SelectAll, NoParameters>>,
      <<InsertN, TupleParameters(<<TextValue("hello")>>)>> }

NextStore ==
    \/ \E commit_fkey \in BOOLEAN : InitDb(commit_fkey)
    \/ \E t \in BOOLEAN : CreateTable(1, NameT, StoreColumns, t, TRUE)
    \/ \E c \in ConnIds, st \in StoreStatements : Execute(c, st[1], st[2])
    \/ \E c \in ConnIds : Commit(c)
    \/ \E c \in ConnIds : Close(c)
    \/ \E c \in ConnIds : Open(c)
    \/ CloseDb

SpecStore == InitRows /\ [][NextStore]_vars

(***************************************************************************)
(* Properties of the in-memory store (checked under SpecStore).            *)
(***************************************************************************)
\* The rows before are the first of the rows after.
RowsKept(before, after) ==
    /\ Len(before) <= Len(after)
    /\ \A i \in 1..Len(before) : after[i] = before[i]

\* C23: while the in-memory Database is not closed, every table and every
\* committed row stays, whichever Connection is closed or opened: after
\* each call but close_db the tables of before are there with their columns
\* and their committed rows, they are in a schema that every open
\* Connection addresses, and a SELECT through any open Connection returns the
\* committed rows of the table it names; after close_db no table is left.
C23_StoreOutlivesConnections ==
    [][in_memory =>
         /\ ret'.op # "close_db" =>
              /\ \A k \in DOMAIN table_data :
                   /\ k \in DOMAIN table_data'
                   /\ table_data'[k].columns = table_data[k].columns
                   /\ RowsKept(table_data[k].rows, table_data'[k].rows)
              /\ \A c \in ConnIds :
                   connection'[c] \in DbapiIds =>
                     \A k \in DOMAIN table_data' : k[1] \in {MainSchema, connection'[c]}
              /\ \A c \in ConnIds :
                   ( /\ connection[c] \in DbapiIds
                     /\ Execute(c, SelectAll, NoParameters)
                     /\ DOMAIN table_data # {} ) =>
                       /\ ret'.outcome = "ok"
                       /\ \E k \in VisibleKeys(dbapi, connection'[c], main_tables, NameT) :
                            RowsKept(table_data[k].rows, last_result'[c].rows)
         /\ ret'.op = "close_db" =>
              /\ main_tables' = {}
              /\ DOMAIN table_data' = {}
              /\ \A d \in DbapiIds : dbapi'[d].temp = {}]_vars

\* The first Connection has run statements and is closed, and the second,
\* opened on the same Database, has just read a committed row of t.
C23_Witness ==
    /\ in_memory
    /\ executed[1] /\ was_closed[1] /\ connection[1] = None
    /\ connection[2] = StaticId
    /\ ret.op = "execute" /\ ret.conn = 2 /\ ret.outcome = "ok"
    /\ last_result[2].returns_rows
    /\ Len(last_result[2].rows) >= 1
    /\ <<MainSchema, NameT>> \in DOMAIN table_data
    /\ RowsKept(table_data[<<MainSchema, NameT>>].rows, last_result[2].rows)
    /\ Len(table_data[<<MainSchema, NameT>>].rows) >= 1


(***************************************************************************)
(* BaseConnection._execute: the text of the statement and its parameters   *)
(***************************************************************************)
\* f":param_{i}"
ParamName(i) == <<"p","a","r","a","m","_">> \o DecimalChars(i)
ParamMarker(i) == <<":">> \o ParamName(i)

\* str.replace("?", new, 1): the first "?" of s gives way to new; s is
\* returned as it is when it holds none.
ReplaceFirst(s, new) ==
    IF \E i \in 1..Len(s) : s[i] = "?"
      THEN LET i == CHOOSE x \in 1..Len(s) :
                      s[x] = "?" /\ \A y \in 1..(x - 1) : s[y] # "?"
           IN  SubSeq(s, 1, i - 1) \o new \o SubSeq(s, i + 1, Len(s))
      ELSE s

\* The loop of _execute from parameter i on: one replacement for each of
\* the n parameters.
RECURSIVE ParamQuery(_, _, _)
ParamQuery(query, i, n) ==
    IF i >= n THEN query
    ELSE ParamQuery(ReplaceFirst(query, ParamMarker(i)), i + 1, n)

\* \w of the regular expressions of sqlalchemy.text().
WordChars == AsciiLower \cup AsciiUpper \cup AsciiDigit \cup {"_"}

\* Length of the name that (?<![:\w\x5c]):(\w+)(?!:) matches at the colon
\* at position p of s, 0 if it does not match there: the colon follows no
\* word character, colon or backslash, and the name is the run of word
\* characters after it, less its last character when a colon follows the
\* run.
BindNameLen(s, p) ==
    LET run == LeadingRun(SubSeq(s, p + 1, Len(s)), WordChars)
    IN  IF \/ s[p] # ":"
           \/ p > 1 /\ s[p - 1] \in WordChars \cup {":", "\\"}
          THEN 0
        ELSE IF p + run + 1 <= Len(s) /\ s[p + run + 1] = ":"
          THEN IF run >= 1 THEN run - 1 ELSE 0
        ELSE run

\* text(s) compiled for the driver, from position p on: every :name that
\* text() finds becomes the driver's "?", and the names are kept in their
\* order; everything else of the text is left as it is.
RECURSIVE Compile(_, _)
Compile(s, p) ==
    IF p > Len(s) THEN [text |-> <<>>, names |-> <<>>]
    ELSE IF BindNameLen(s, p) >= 1
      THEN LET k == BindNameLen(s, p)
               rest == Compile(s, p + k + 1)
           IN  [text |-> <<"?">> \o rest.text,
                names |-> <<SubSeq(s, p + 1, p + k)>> \o rest.names]
    ELSE LET rest == Compile(s, p + 1)
         IN  [text |-> <<s[p]>> \o rest.text, names |-> rest.names]

\* Position p of s is inside a string literal: an odd number of quotes
\* comes before it.
InLiteral(s, p) == Cardinality({q \in 1..(p - 1) : s[q] = "'"}) % 2 = 1

\* Every literal of s is closed.
WellQuoted(s) == ~InLiteral(s, Len(s) + 1)

\* The parameters of a statement as the engine reads it: each "?" and
\* each :name outside the string literals.
EnginePlaceholders(s) ==
    { p \in 1..Len(s) :
        /\ s[p] # "'"
        /\ ~InLiteral(s, p)
        /\ \/ s[p] = "?"
           \/ s[p] = ":" /\ p < Len(s) /\ s[p + 1] \in WordChars }

\* The driver's execute(statement, values): the engine refuses a literal
\* that is not closed, and the driver a number of values that is not the
\* number of the statement's parameters; else the values are bound to the
\* parameters in their order.
DriverExecute(statement, values) ==
    IF ~WellQuoted(statement) \/ Cardinality(EnginePlaceholders(statement)) # Len(values)
      THEN [outcome |-> "EngineError", text |-> statement, bound |-> <<>>]
      ELSE [outcome |-> "ok", text |-> statement, bound |-> values]

\* self.connection.execute(text(s), param_dict): a name of the text that
\* is no key of param_dict is an error; the values go to the driver in the
\* order of the names in the text.
ConnectionExecute(s, parameters) ==
    LET c == Compile(s, 1)
        known(name) == \E i \in 0..(Len(parameters) - 1) : ParamName(i) = name
        value(name) ==
            parameters[(CHOOSE i \in 0..(Len(parameters) - 1) : ParamName(i) = name) + 1]
    IN  IF \E j \in 1..Len(c.names) : ~known(c.names[j])
          THEN [outcome |-> "EngineError", text |-> c.text, bound |-> <<>>]
          ELSE DriverExecute(c.text, [j \in 1..Len(c.names) |-> value(c.names[j])])

\* execute(query, parameters) as far as the statement the engine is given:
\* None becomes the empty tuple, and _execute rewrites the text only when
\* the tuple is not empty.
execute_text(query, parameters) ==
    LET params == IF parameters.kind = "None" THEN <<>> ELSE parameters.values
    IN  IF Len(query) = 0
          THEN [outcome |-> "EmptyQuery", text |-> query, bound |-> <<>>]
        ELSE IF parameters.kind = "list"
          THEN [outcome |-> "ArgTypeError", text |-> query, bound |-> <<>>]
        ELSE IF Len(params) > 0
          THEN ConnectionExecute(ParamQuery(query, 0, Len(params)), params)
        ELSE ConnectionExecute(query, <<>>)

(***************************************************************************)
(* The specification of the statement text: a short text is given to       *)
(* execute on the connection of the fixture with each of the parameter     *)
(* arguments.  The texts are read as far as their literals and parameters. *)
(***************************************************************************)
MaxQueryLen == 5
MaxParams == 2

\* A parameter, a quote, a word character and a blank.
QueryAlphabet == {"?", "'", "x", " "}

QueryInputs == Strings(QueryAlphabet, MaxQueryLen)

BindValues == {TextValue("hello"), IntegerValue(3)}

BindParameters ==
    {NoParameters, ListParameters}
      \cup {TupleParameters(v) : v \in UNION {[1..k -> BindValues] : k \in 0..MaxParams}}

InitText ==
    /\ DatabaseOf(FixtureOptions, Uuid4Text)
    /\ created = [c \in ConnIds |-> c = 1]
    /\ connection = [c \in ConnIds |-> IF c = 1 THEN StaticId ELSE None]
    /\ in_transaction = [c \in ConnIds |-> FALSE]
    /\ last_result = [c \in ConnIds |-> NoResult]
    /\ was_closed = [c \in ConnIds |-> FALSE]
    /\ executed = [c \in ConnIds |-> FALSE]
    /\ scope = [c \in ConnIds |-> "none"]
    /\ dbapi = [d \in DbapiIds |->
          IF d = StaticId
            THEN [NoDbapi EXCEPT !.state = "static", !.foreign_keys = TRUE]
            ELSE NoDbapi]
    /\ pool_queue = <<>>
    /\ main_tables = {}
    /\ table_data = DataFor(dbapi, main_tables, <<>>, NewTable(<<>>))
    /\ ret = Sent("init_db", 1, "ok")
    /\ identifier \in QueryInputs
    /\ col_type = <<>>
    /\ validated = <<>>

\* execute(query, parameters) on the connection of the fixture, query being
\* the text given.
ExecuteText(parameters) ==
    LET r == execute_text(identifier, parameters)
        sent == r.outcome \notin {"EmptyQuery", "ArgTypeError"}
    IN  /\ validated = <<>>
        /\ validated' = <<[parameters |-> parameters, result |-> r]>>
        /\ ret' = IF sent THEN Sent("execute", 1, r.outcome)
                  ELSE Return("execute", 1, r.outcome)
        /\ in_transaction' = [in_transaction EXCEPT ![1] = @ \/ sent]
        /\ last_result' = IF r.outcome = "ok"
                            THEN [last_result EXCEPT ![1] = NoRowsResult]
                            ELSE last_result
        /\ executed' = [executed EXCEPT ![1] = @ \/ r.outcome = "ok"]
        /\ UNCHANGED <<dbVars, created, connection, was_closed, engineVars,
                       identifier, col_type, scope>>

NextText == \E p \in BindParameters : ExecuteText(p)

SpecText == InitText /\ [][NextText]_vars

(***************************************************************************)
(* Properties of the binding of parameters (checked under SpecText).       *)
(***************************************************************************)
\* The "?" of a text that are parameters: those outside its literals.
Placeholders(s) == {p \in 1..Len(s) : s[p] = "?" /\ ~InLiteral(s, p)}

\* The tuple an argument of execute stands for.
GivenValues(parameters) ==
    IF parameters.kind = "tuple" THEN parameters.values ELSE <<>>

\* C24: a statement whose literals are closed and that has exactly as many
\* "?" parameters as the tuple has values runs with the i-th value bound
\* to the i-th parameter, for every i, and with its text as it was given;
\* and execute without a parameter argument does what it does with the
\* empty tuple.
C24_BindsPositionally ==
    Len(validated) = 1 =>
      /\ ( /\ validated[1].parameters.kind # "list"
           /\ Len(identifier) > 0
           /\ WellQuoted(identifier)
           /\ Cardinality(Placeholders(identifier))
                = Len(GivenValues(validated[1].parameters)) ) =>
             /\ validated[1].result.outcome = "ok"
             /\ validated[1].result.bound = GivenValues(validated[1].parameters)
             /\ validated[1].result.text = identifier
      /\ validated[1].parameters.kind = "None" =>
           validated[1].result = execute_text(identifier, TupleParameters(<<>>))

\* The statement, with a "?" in a literal before its one parameter, has
\* been refused.
C24_QuestionMarkInLiteral ==
    /\ Len(validated) = 1
    /\ validated[1].parameters.kind = "tuple"
    /\ Len(validated[1].parameters.values) = 1
    /\ WellQuoted(identifier)
    /\ Cardinality(Placeholders(identifier)) = 1
    /\ \E p \in 1..Len(identifier) : identifier[p] = "?" /\ InLiteral(identifier, p)
    /\ validated[1].result.outcome = "EngineError"


\* Every "?" of the text is a parameter that stands apart: it is outside
\* the literals, no word character, colon or backslash comes just before
\* it, and no word character or "?" just after it.
ParametersApart(s) ==
    \A p \in 1..Len(s) :
      s[p] = "?" =>
        /\ ~InLiteral(s, p)
        /\ p > 1 => s[p - 1] \notin WordChars \cup {":", "\\"}
        /\ p < Len(s) => s[p + 1] \notin WordChars \cup {"?"}

\* The part of C24 that holds: the same for the texts whose "?" all stand
\* apart.
C24_BindsPositionallyWhenApart ==
    Len(validated) = 1 =>
      /\ ( /\ validated[1].parameters.kind # "list"
           /\ Len(identifier) > 0
           /\ WellQuoted(identifier)
           /\ ParametersApart(identifier)
           /\ Cardinality(Placeholders(identifier))
                = Len(GivenValues(validated[1].parameters)) ) =>
             /\ validated[1].result.outcome = "ok"
             /\ validated[1].result.bound = GivenValues(validated[1].parameters)
             /\ validated[1].result.text = identifier
      /\ validated[1].parameters.kind = "None" =>
           validated[1].result = execute_text(identifier, TupleParameters(<<>>))


(***************************************************************************)
(* The specification of the Database's attributes: a Database constructed  *)
(* from any accepted options map, and callers that use it through at most  *)
(* MaxDdlConns connections.                                                *)
(***************************************************************************)
InitAttributes ==
    /\ \E opts \in OptionMaps : DatabaseOf(opts, Uuid4Text)
    /\ InitConnections
    /\ InitEngine
    /\ ret = DbReturn("Database", "ok")
    /\ identifier = <<>>
    /\ col_type = <<>>
    /\ validated = <<>>

NextAttributes ==
    \/ NumCreated < MaxDdlConns /\ CreateConnection
    \/ NumCreated < MaxDdlConns /\ \E commit_fkey \in BOOLEAN : InitDb(commit_fkey)
    \/ NumCreated < MaxDdlConns /\ InitDbAutoClose
    \/ CloseDb
    \/ \E c \in ConnIds : Open(c)
    \/ \E c \in ConnIds : Close(c)
    \/ \E c \in ConnIds, q \in Queries, p \in Parameters : Execute(c, q, p)
    \/ \E c \in ConnIds : Commit(c)
    \/ \E c \in ConnIds, all \in BOOLEAN : Fetch(c, all)
    \/ \E c \in ConnIds, commit \in BOOLEAN : EnforceForeignKeyConstraints(c, commit)
    \/ \E c \in ConnIds, t \in BOOLEAN, r \in BOOLEAN :
          CreateTable(c, NameT, StoreColumns, t, r)
    \/ \E c \in ConnIds, r \in BOOLEAN : DropTable(c, NameT, r)

SpecAttributes == InitAttributes /\ [][NextAttributes]_vars

(***************************************************************************)
(* Properties of the Database's attributes (checked under SpecAttributes). *)
(***************************************************************************)
\* The options map gives the key the value, or has no item of the key.
Given(key, value) == \E i \in 1..Len(options) : options[i] = <<key, value>>
Absent(key) == \A i \in 1..Len(options) : options[i][1] # key

\* The attributes are those the options map stands for.
AttributesDerived ==
    /\ \A b \in BOOLEAN : Given("is_mem", BoolOption(b)) => in_memory = b
    /\ Absent("is_mem") => ~in_memory
    /\ is_file = ~in_memory
    /\ \A b \in BOOLEAN : Given("fkey_constraint", BoolOption(b)) => fkey_constraint = b
    /\ Absent("fkey_constraint") => fkey_constraint
    /\ \A i \in 1..Len(options) :
         options[i][1] = "db_name" => db_name = options[i][2].str
    /\ in_memory => db_file_name = MemoryFileName
    /\ ~in_memory =>
         /\ Len(db_file_name) = Len(db_name)
         /\ \A i \in 1..Len(db_name) :
              db_file_name[i] = IF db_name[i] = " " THEN "_" ELSE db_name[i]

\* C25: the Database made from an accepted options map has in_memory as
\* is_mem gives it (false without it), is_file its negation, the
\* foreign-key policy as fkey_constraint gives it (true without it), and
\* as file name the in-memory sentinel or the name with an underscore for
\* every space; and no call on the Database or on a Connection changes one
\* of them.
C25_AttributesDerivedAndFixed ==
    [][/\ AttributesDerived
       /\ AttributesDerived'
       /\ UNCHANGED <<in_memory, is_file, fkey_constraint, db_name, db_file_name>>]_vars

\* A file-backed Database made with the defaults and a name with a space
\* has been used and closed.
C25_Witness ==
    /\ Absent("is_mem") /\ Absent("fkey_constraint")
    /\ Given("db_name", StrOption(<<"d"," ","b">>))
    /\ is_file /\ fkey_constraint
    /\ db_file_name = <<"d","_","b">>
    /\ ret.op = "close_db"
    /\ \E c \in ConnIds : was_closed[c] /\ executed[c]


(***************************************************************************)
(* create_table and drop_table with an argument that is not of its         *)
(* declared type                                                           *)
(***************************************************************************)
CreateArguments == {"table_name", "temp_table", "raise_if_exists", "columns"}
DropArguments == {"table_name", "raise_if_not_exists"}

\* create_table called with the argument arg of another type than declared
\* and the others as declared: the arguments are tested in the order
\* table_name, its length, temp_table, raise_if_exists, columns.
CreateTableMistyped(c, table_name, arg) ==
    /\ created[c]
    /\ IF arg = "table_name" THEN Unchanged("create_table", c, "ArgTypeError")
       ELSE IF Len(table_name) = 0 THEN Unchanged("create_table", c, "EmptyTableName")
       ELSE Unchanged("create_table", c, "ArgTypeError")

\* drop_table called likewise: table_name, its length, raise_if_not_exists.
DropTableMistyped(c, table_name, arg) ==
    /\ created[c]
    /\ IF arg = "table_name" THEN Unchanged("drop_table", c, "ArgTypeError")
       ELSE IF Len(table_name) = 0 THEN Unchanged("drop_table", c, "EmptyTableName")
       ELSE Unchanged("drop_table", c, "ArgTypeError")

(***************************************************************************)
(* The specification of failing table calls: the connection of the         *)
(* fixture creates and drops tables with valid and invalid names, columns  *)
(* and arguments, inserts rows into t, and is closed and opened again.     *)
(***************************************************************************)
\* Column lists: none, valid ones, and lists whose first or second column
\* has a type or a name that is refused.
FailColumnLists ==
    { <<>>,
      << <<NameN, TypeText>> >>,
      << <<NameN, TypeText>>, <<NameM, TypeInteger>> >>,
      << <<NameN, TypeUnsupported>>, <<NameM, TypeInteger>> >>,
      << <<NameN, TypeText>>, <<NameM, TypeUnsupported>> >>,
      << <<NameN, TypeText>>, <<NameReserved, TypeText>> >> }

NextFail ==
    \/ \E n \in TableNames, cols \in FailColumnLists, t \in BOOLEAN, r \in BOOLEAN :
          CreateTable(1, n, cols, t, r)
    \/ \E n \in TableNames, r \in BOOLEAN : DropTable(1, n, r)
    \/ \E n \in TableNames, arg \in CreateArguments : CreateTableMistyped(1, n, arg)
    \/ \E n \in TableNames, arg \in DropArguments : DropTableMistyped(1, n, arg)
    \/ Execute(1, InsertN, TupleParameters(<<TextValue("hello")>>))
    \/ Close(1)
    \/ Open(1)

SpecFail == InitRows /\ [][NextFail]_vars

(***************************************************************************)
(* Properties of failing table calls (checked under SpecFail).             *)
(***************************************************************************)
\* C26: a create_table or drop_table call that does not return leaves the
\* tables of the main schema, the temporary tables of every connection and
\* the columns and rows of every table as they were.
C26_FailedCallChangesNoTable ==
    [][(ret'.op \in {"create_table", "drop_table"} /\ ret'.outcome # "ok") =>
         /\ main_tables' = main_tables
         /\ table_data' = table_data
         /\ \A d \in DbapiIds : dbapi'[d].temp = dbapi[d].temp]_vars

\* create_table has refused the second column of its list while t holds a
\* row.
C26_Witness ==
    /\ ret.op = "create_table"
    /\ ret.outcome = "UnsupportedType"
    /\ <<MainSchema, NameT>> \in DOMAIN table_data
    /\ Len(table_data[<<MainSchema, NameT>>].rows) >= 1
    /\ Len(table_data[<<MainSchema, NameT>>].columns) = 3

=============================================================================
